---------------------------- MODULE Spec2Model ----------------------------
(***************************************************************************)
(* A model of the news aggregation service of                              *)
(* backend/services/enhanced_news_service.py, its cache decorator          *)
(* (backend/utils/cache.py) and the route that calls it                    *)
(* (backend/routers/enhanced_news_router.py).                              *)
(*                                                                         *)
(* Python strings on which the code works character by character (titles,  *)
(* URLs) are sequences of one-character strings; strings that are only     *)
(* compared or concatenated (feed names, cache keys) are TLA+ strings.     *)
(***************************************************************************)
EXTENDS Integers, Sequences, FiniteSets, TLC

(***************************************************************************)
(* Strings                                                                 *)
(***************************************************************************)

UpperChars == <<"A", "B", "C", "D", "E", "F", "G", "H", "I", "J", "K", "L", "M",
                "N", "O", "P", "Q", "R", "S", "T", "U", "V", "W", "X", "Y", "Z">>

LowerChars == <<"a", "b", "c", "d", "e", "f", "g", "h", "i", "j", "k", "l", "m",
                "n", "o", "p", "q", "r", "s", "t", "u", "v", "w", "x", "y", "z">>

DigitChars == {"0", "1", "2", "3", "4", "5", "6", "7", "8", "9"}

Range(s) == {s[i] : i \in DOMAIN s}

\* \w of the re module: letters, digits and the underscore
IsWordChar(ch) == ch \in Range(UpperChars) \cup Range(LowerChars) \cup DigitChars \cup {"_"}

\* \s of the re module, and what str.strip() and str.split() take for blank
IsSpaceChar(ch) == ch \in {" ", "\t", "\n"}

\* str.lower(), one character
lower_char(ch) ==
    IF \E i \in DOMAIN UpperChars : UpperChars[i] = ch
    THEN LowerChars[CHOOSE i \in DOMAIN UpperChars : UpperChars[i] = ch]
    ELSE ch

\* str.lower()
str_lower(s) == [i \in DOMAIN s |-> lower_char(s[i])]

RECURSIVE lstrip(_)
lstrip(s) == IF s # <<>> /\ IsSpaceChar(Head(s)) THEN lstrip(Tail(s)) ELSE s

RECURSIVE rstrip(_)
rstrip(s) ==
    IF s # <<>> /\ IsSpaceChar(s[Len(s)]) THEN rstrip(SubSeq(s, 1, Len(s) - 1)) ELSE s

\* str.strip()
str_strip(s) == rstrip(lstrip(s))

\* str.split() without arguments: the maximal runs of non-blank characters
RECURSIVE split_from(_, _, _)
split_from(s, word, acc) ==
    IF s = <<>>
    THEN IF word = <<>> THEN acc ELSE Append(acc, word)
    ELSE IF IsSpaceChar(Head(s))
         THEN split_from(Tail(s), <<>>, IF word = <<>> THEN acc ELSE Append(acc, word))
         ELSE split_from(Tail(s), Append(word, Head(s)), acc)

str_split(s) == split_from(s, <<>>, <<>>)

(***************************************************************************)
(* remove_duplicates_advanced                                              *)
(***************************************************************************)

\* re.sub(r'[^\w\s]', '', s): every character that is neither \w nor \s goes
IsKeptChar(ch) == IsWordChar(ch) \/ IsSpaceChar(ch)

remove_special(s) == SelectSeq(s, IsKeptChar)

\* re.sub(r'\s+', ' ', s): every run of blanks becomes one space
RECURSIVE collapse_spaces(_)
collapse_spaces(s) ==
    IF s = <<>> THEN <<>>
    ELSE IF IsSpaceChar(Head(s))
         THEN <<" ">> \o collapse_spaces(lstrip(s))
         ELSE <<Head(s)>> \o collapse_spaces(Tail(s))

normalize_title(title) == str_strip(collapse_spaces(remove_special(str_lower(title))))

\* The similarity is the fraction num/den; 0.0 is <<0, 1>>.
title_similarity(title1, title2) ==
    LET words1 == Range(str_split(normalize_title(title1)))
        words2 == Range(str_split(normalize_title(title2)))
    IN  IF words1 = {} \/ words2 = {}
        THEN <<0, 1>>
        ELSE <<Cardinality(words1 \cap words2), Cardinality(words1 \cup words2)>>

exceeds_threshold_or_equal(sim) == 5 * sim[1] >= 4 * sim[2]

\* sim > 0.8, the fraction against 4/5 (the quotient of two small integers
\* rounds to the double 0.8 exactly when it is 4/5)
exceeds_threshold_loose(sim) == 10 * sim[1] > 9 * sim[2]

exceeds_threshold(sim) == 5 * sim[1] > 4 * sim[2]

url_seen_never(url, seen_urls) == FALSE

\* url in seen_urls
url_seen(url, seen_urls) == url \in seen_urls

is_duplicate_title(title, seen_titles) ==
    \E seen_title \in seen_titles : exceeds_threshold(title_similarity(title, seen_title))

\* seen_titles holds only the title of the article looked at last
RECURSIVE dedupe_loop_last(_, _)
dedupe_loop_last(arts, st) ==
    IF arts = <<>> THEN st.unique
    ELSE LET article == Head(arts)
             url     == str_strip(article.url)
             title   == str_strip(article.title)
             last    == [st EXCEPT !.seen_titles = {title}]
         IN  IF title = <<>> \/ url = <<>>
             THEN dedupe_loop_last(Tail(arts), st)
             ELSE IF url_seen(url, st.seen_urls)
             THEN dedupe_loop_last(Tail(arts), last)
             ELSE IF is_duplicate_title(title, st.seen_titles)
             THEN dedupe_loop_last(Tail(arts), last)
             ELSE dedupe_loop_last(Tail(arts),
                                   [unique      |-> Append(st.unique, article),
                                    seen_urls   |-> st.seen_urls \cup {url},
                                    seen_titles |-> {title}])

\* The loop over the articles: st is [unique, seen_urls, seen_titles].
RECURSIVE dedupe_loop(_, _)
dedupe_loop(arts, st) ==
    IF arts = <<>> THEN st.unique
    ELSE LET article == Head(arts)
             url     == str_strip(article.url)
             title   == str_strip(article.title)
         IN  IF title = <<>> \/ url = <<>>
             THEN dedupe_loop(Tail(arts), st)
             ELSE IF url_seen(url, st.seen_urls)
             THEN dedupe_loop(Tail(arts), st)
             ELSE IF is_duplicate_title(title, st.seen_titles)
             THEN dedupe_loop(Tail(arts), st)
             ELSE dedupe_loop(Tail(arts),
                              [unique      |-> Append(st.unique, article),
                               seen_urls   |-> st.seen_urls \cup {url},
                               seen_titles |-> st.seen_titles \cup {title}])

remove_duplicates_advanced(arts) ==
    dedupe_loop(arts, [unique |-> <<>>, seen_urls |-> {}, seen_titles |-> {}])


(***************************************************************************)
(* Python values that reach the cache key                                  *)
(***************************************************************************)

\* A value is a record [t, s, n]: t the type, s the characters of a str or
\* of the class name of an object, n the number of an int, the truth value
\* of a bool (1/0) or the address of an object.
PyNone      == [t |-> "none", s |-> <<>>, n |-> 0]
PyStr(cs)   == [t |-> "str", s |-> cs, n |-> 0]
PyInt(k)    == [t |-> "int", s |-> <<>>, n |-> k]
PyBool(b)   == [t |-> "bool", s |-> <<>>, n |-> IF b THEN 1 ELSE 0]
PyObj(c, a) == [t |-> "object", s |-> c, n |-> a]

RECURSIVE Join(_)
Join(cs) ==
    IF cs = <<>> THEN ""
    ELSE IF Len(cs) = 1 THEN cs[1]
    ELSE Join(SubSeq(cs, 1, Len(cs) \div 2)) \o Join(SubSeq(cs, (Len(cs) \div 2) + 1, Len(cs)))

Digits == <<"0", "1", "2", "3", "4", "5", "6", "7", "8", "9">>

\* str(n) of an int that is not negative
RECURSIVE int_str(_)
int_str(n) == IF n < 10 THEN <<Digits[n + 1]>> ELSE int_str(n \div 10) \o <<Digits[(n % 10) + 1]>>

\* str(v), as characters; an object without __str__ prints its class and its
\* address
py_str(v) ==
    CASE v.t = "none" -> <<"N", "o", "n", "e">>
      [] v.t = "str"  -> v.s
      [] v.t = "int"  -> int_str(v.n)
      [] v.t = "bool" -> IF v.n = 1 THEN <<"T", "r", "u", "e">> ELSE <<"F", "a", "l", "s", "e">>
      [] OTHER        -> <<"<">> \o v.s \o <<" ", "o", "b", "j", "e", "c", "t", " ", "a", "t", " ", "0", "x">> \o int_str(v.n) \o <<">">>

\* if x: of a value
truthy(v) ==
    CASE v.t = "none" -> FALSE
      [] v.t = "str"  -> v.s # <<>>
      [] v.t = "int"  -> v.n # 0
      [] v.t = "bool" -> v.n = 1
      [] OTHER        -> TRUE

(***************************************************************************)
(* utils/cache.py                                                          *)
(***************************************************************************)

RECURSIVE join_with(_, _)
join_with(strs, sep) ==
    IF strs = <<>> THEN <<>>
    ELSE IF Len(strs) = 1 THEN strs[1]
    ELSE strs[1] \o sep \o join_with(Tail(strs), sep)

\* The keyword names the cached functions are called with, in sorted() order
KeywordOrder == <<<<"d", "b">>,
                  <<"f", "o", "c", "u", "s", "_", "i", "n", "d", "i", "a", "n">>,
                  <<"l", "i", "m", "i", "t">>,
                  <<"o", "f", "f", "s", "e", "t">>,
                  <<"s", "o", "u", "r", "c", "e">>,
                  <<"t", "o", "p", "i", "c">>>>

\* sorted(kwargs.items()): kwargs is a sequence of <<name, value>> pairs
sorted_items(kwargs) ==
    LET present(k) == \E i \in DOMAIN kwargs : kwargs[i][1] = k
        names == SelectSeq(KeywordOrder, present)
    IN  [j \in DOMAIN names |->
            kwargs[CHOOSE i \in DOMAIN kwargs : kwargs[i][1] = names[j]]]

cache_key_builder(args, kwargs) ==
    LET args_str   == join_with([i \in DOMAIN args |-> py_str(args[i])], <<"_">>)
        items      == sorted_items(kwargs)
        kwargs_str == join_with([i \in DOMAIN items |->
                                    items[i][1] \o <<":">> \o py_str(items[i][2])], <<"_">>)
    IN  IF args_str # <<>> /\ kwargs_str # <<>> THEN args_str \o <<"_">> \o kwargs_str
        ELSE IF args_str # <<>> THEN args_str
        ELSE IF kwargs_str # <<>> THEN kwargs_str
        ELSE <<"d", "e", "f", "a", "u", "l", "t">>

\* cache_key = f"{prefix}:{func.__name__}:{key_suffix}"
cache_key(prefix, func_name, args, kwargs) ==
    prefix \o <<":">> \o func_name \o <<":">> \o cache_key_builder(args, kwargs)

\* json.dumps of a result and json.loads of the stored text: the text is
\* the value wrapped, so that a stored text is never taken for a result
json_dumps(result) == [json |-> result]

json_loads(text) == text.json


(***************************************************************************)
(* The decorator around any function: what json makes of a result          *)
(***************************************************************************)

\* A list and a tuple of one-character strs hold their elements in s.
PyList(cs)  == [t |-> "list", s |-> cs, n |-> 0]
PyTuple(cs) == [t |-> "tuple", s |-> cs, n |-> 0]

\* What json.dumps and json.loads raise
TypeError       == [t |-> "TypeError", s |-> <<>>, n |-> 0]
JSONDecodeError == [t |-> "JSONDecodeError", s |-> <<>>, n |-> 0]

Quote == "\""

\* json.dumps(v) of a value whose strs hold no quote, backslash or control
\* character: the text, or TypeError for an object json cannot serialize
json_dumps_value(v) ==
    CASE v.t = "none" -> <<"n", "u", "l", "l">>
      [] v.t = "bool" -> IF v.n = 1 THEN <<"t", "r", "u", "e">>
                                    ELSE <<"f", "a", "l", "s", "e">>
      [] v.t = "int"  -> int_str(v.n)
      [] v.t = "str"  -> <<Quote>> \o v.s \o <<Quote>>
      [] v.t \in {"list", "tuple"} ->
             <<"[">> \o join_with([i \in DOMAIN v.s |-> <<Quote, v.s[i], Quote>>],
                                   <<",", " ">>) \o <<"]">>
      [] OTHER        -> TypeError

\* The int a text of digits writes
RECURSIVE int_of(_)
int_of(text) ==
    IF text = <<>> THEN 0
    ELSE 10 * int_of(SubSeq(text, 1, Len(text) - 1))
         + ((CHOOSE d \in DOMAIN Digits : Digits[d] = text[Len(text)]) - 1)

is_json_int(text) ==
    /\ text # <<>>
    /\ \A i \in DOMAIN text : text[i] \in DigitChars
    /\ Len(text) > 1 => text[1] # "0"

is_json_str(text) ==
    /\ Len(text) >= 2
    /\ text[1] = Quote
    /\ text[Len(text)] = Quote
    /\ \A i \in 2..(Len(text) - 1) : text[i] \notin {Quote, "\\"}

\* The pieces of text between the commas
RECURSIVE split_commas(_)
split_commas(text) ==
    IF \A i \in DOMAIN text : text[i] # ","
    THEN <<text>>
    ELSE LET k == CHOOSE i \in DOMAIN text :
                      text[i] = "," /\ \A j \in 1..(i - 1) : text[j] # ","
         IN  <<SubSeq(text, 1, k - 1)>> \o split_commas(SubSeq(text, k + 1, Len(text)))

\* json.loads(text) for the texts of null, true, false, ints, strs and
\* arrays of one-character strs; any other text is not JSON here
json_loads_value(text) ==
    LET inner == str_strip(SubSeq(text, 2, Len(text) - 1))
        items == [i \in DOMAIN split_commas(inner) |-> str_strip(split_commas(inner)[i])]
    IN  CASE text = <<"n", "u", "l", "l">>      -> PyNone
          [] text = <<"t", "r", "u", "e">>      -> PyBool(TRUE)
          [] text = <<"f", "a", "l", "s", "e">> -> PyBool(FALSE)
          [] is_json_int(text)                  -> PyInt(int_of(text))
          [] is_json_str(text)                  -> PyStr(SubSeq(text, 2, Len(text) - 1))
          [] Len(text) >= 2 /\ text[1] = "[" /\ text[Len(text)] = "]" ->
                 IF inner = <<>> THEN PyList(<<>>)
                 ELSE IF \A i \in DOMAIN items : is_json_str(items[i]) /\ Len(items[i]) = 3
                 THEN PyList([i \in DOMAIN items |-> items[i][2]])
                 ELSE JSONDecodeError
          [] OTHER                              -> JSONDecodeError

\* json.dumps(result) if not isinstance(result, str) else result
stored_text(result) == IF result.t = "str" THEN result.s ELSE json_dumps_value(result)

\* if cached_value: try: return json.loads(cached_value)
\* except json.JSONDecodeError: return cached_value
cached_result(cached_value) ==
    IF json_loads_value(cached_value) = JSONDecodeError
    THEN PyStr(cached_value)
    ELSE json_loads_value(cached_value)

CACHE_TTL_SECONDS == 600

\* MUTANT of cache_ttl: the ttl of the decorator is not looked at
cache_ttl_default(ttl) == CACHE_TTL_SECONDS

\* cache_ttl = ttl if ttl is not None else Config.CACHE_TTL_SECONDS; a ttl
\* of None is written 0 here, which no decorator of the repository gives
cache_ttl(ttl) == IF ttl # 0 THEN ttl ELSE CACHE_TTL_SECONDS

\* The one service object of the process (the module's global instance)
ServiceAddr == 1

ServiceSelf == PyObj(<<"E", "n", "h", "a", "n", "c", "e", "d", "N", "e", "w", "s", "S", "e", "r", "v", "i", "c", "e">>,
                     ServiceAddr)

\* The call of the route: service.get_enhanced_news_feed(db=db, topic=...,
\* source=..., limit=..., offset=..., focus_indian=...)
route_kwargs(db, p) ==
    << <<KeywordOrder[1], db>>, <<KeywordOrder[6], p.topic>>, <<KeywordOrder[5], p.source>>,
       <<KeywordOrder[3], PyInt(p.limit)>>, <<KeywordOrder[4], PyInt(p.offset)>>,
       <<KeywordOrder[2], PyBool(p.focus_indian)>> >>

\* @cache(prefix="enhanced_news", ttl=300)
FeedPrefix == <<"e", "n", "h", "a", "n", "c", "e", "d", "_", "n", "e", "w", "s">>

FeedFuncName == <<"g", "e", "t", "_", "e", "n", "h", "a", "n", "c", "e", "d", "_", "n", "e", "w", "s", "_", "f", "e", "e", "d">>

\* The key of a request, as the string redis holds
feed_cache_key(db, p) ==
    Join(cache_key(FeedPrefix, FeedFuncName, <<ServiceSelf>>, route_kwargs(db, p)))

(***************************************************************************)
(* Sequences                                                               *)
(***************************************************************************)

Min(a, b) == IF a < b THEN a ELSE b

\* s[:n]
Take(s, n) == SubSeq(s, 1, Min(n, Len(s)))

\* s[a:b] of a list, 0 <= a
Slice(s, a, b) == SubSeq(s, a + 1, Min(b, Len(s)))

RECURSIVE Concat(_)
Concat(ss) == IF ss = <<>> THEN <<>> ELSE Head(ss) \o Concat(Tail(ss))

RECURSIVE SumSeq(_)
SumSeq(ns) == IF ns = <<>> THEN 0 ELSE Head(ns) + SumSeq(Tail(ns))

\* MUTANT of sort_desc: equal keys come out in reverse order
sort_desc_unstable(s, keys) ==
    LET pos(i) == 1 + Cardinality({j \in DOMAIN s : keys[j] > keys[i]})
                    + Cardinality({j \in DOMAIN s : j > i /\ keys[j] = keys[i]})
        place  == [i \in DOMAIN s |-> pos(i)]
    IN  [p \in DOMAIN s |-> s[CHOOSE i \in DOMAIN s : place[i] = p]]

\* sorted(s, key=..., reverse=True) and list.sort(key=..., reverse=True):
\* keys[i] is the key of s[i]; the sort is stable, so equal keys keep their
\* order
sort_desc(s, keys) ==
    LET pos(i) == 1 + Cardinality({j \in DOMAIN s : keys[j] > keys[i]})
                    + Cardinality({j \in DOMAIN s : j < i /\ keys[j] = keys[i]})
        place  == [i \in DOMAIN s |-> pos(i)]
    IN  [p \in DOMAIN s |-> s[CHOOSE i \in DOMAIN s : place[i] = p]]

\* needle in hay
is_substring(needle, hay) ==
    \E i \in 0..(Len(hay) - Len(needle)) : SubSeq(hay, i + 1, i + Len(needle)) = needle

\* re.search(r'\b' + re.escape(keyword) + r'\b', text), for a keyword that
\* starts and ends with a word character
word_match(keyword, text) ==
    \E i \in 0..(Len(text) - Len(keyword)) :
        /\ SubSeq(text, i + 1, i + Len(keyword)) = keyword
        /\ (i = 0 \/ ~IsWordChar(text[i]))
        /\ (i + Len(keyword) = Len(text) \/ ~IsWordChar(text[i + Len(keyword) + 1]))

(***************************************************************************)
(* The keyword tables (each cut down to a few of its entries)              *)
(***************************************************************************)

\* The topics of self.topic_keywords, in the order of the dict
TopicOrder == <<"technology", "business", "politics">>

TopicChars == [technology |-> <<"t", "e", "c", "h", "n", "o", "l", "o", "g", "y">>,
               business   |-> <<"b", "u", "s", "i", "n", "e", "s", "s">>,
               politics   |-> <<"p", "o", "l", "i", "t", "i", "c", "s">>]

topic_keywords == [technology |-> <<<<"t", "e", "c", "h">>, <<"a", "i">>, <<"s", "m", "a", "r", "t", "p", "h", "o", "n", "e">>>>,
                   business   |-> <<<<"b", "u", "s", "i", "n", "e", "s", "s">>, <<"m", "a", "r", "k", "e", "t">>, <<"e", "c", "o", "n", "o", "m", "y">>>>,
                   politics   |-> <<<<"g", "o", "v", "e", "r", "n", "m", "e", "n", "t">>, <<"p", "o", "l", "i", "c", "y">>, <<"e", "l", "e", "c", "t", "i", "o", "n">>, <<"h", "i", "g", "h", " ", "c", "o", "u", "r", "t">>>>]

indian_keywords == <<<<"i", "n", "d", "i", "a">>, <<"i", "n", "d", "i", "a", "n">>, <<"d", "e", "l", "h", "i">>>>

GeneralChars == <<"g", "e", "n", "e", "r", "a", "l">>

(***************************************************************************)
(* classify_article_topic, is_indian_content                               *)
(***************************************************************************)

\* What one keyword adds to the score, and whether it counts as a match
keyword_score(keyword, title_lower, content_lower, text) ==
    LET kw == str_lower(keyword)
    IN  (IF is_substring(kw, title_lower) THEN 5
         ELSE IF is_substring(kw, content_lower) THEN 2 ELSE 0)
        + (IF word_match(kw, text) THEN 1 ELSE 0)

keyword_matched(keyword, title_lower, content_lower) ==
    LET kw == str_lower(keyword)
    IN  is_substring(kw, title_lower) \/ is_substring(kw, content_lower)

topic_score(keywords, title, content) ==
    LET title_lower   == str_lower(title)
        content_lower == str_lower(content)
        text          == title_lower \o <<" ">> \o content_lower
        score == SumSeq([i \in DOMAIN keywords |->
                            keyword_score(keywords[i], title_lower, content_lower, text)])
        keyword_matches == Cardinality({i \in DOMAIN keywords :
                            keyword_matched(keywords[i], title_lower, content_lower)})
    IN  score + (IF keyword_matches >= 2 THEN keyword_matches * 2 ELSE 0)

\* The least score a topic needs
MinTopicScore == 3

\* topic_scores, in the order of the dict
topic_scores(title, content) ==
    [i \in DOMAIN TopicOrder |-> topic_score(topic_keywords[TopicOrder[i]], title, content)]

\* MUTANT of meets_threshold: the least score itself is not enough
meets_threshold_above(max_score) == max_score > MinTopicScore

\* if max_score >= 3
meets_threshold(max_score) == max_score >= MinTopicScore

\* max(topic_scores, key=topic_scores.get): the first topic of the dict
\* with the highest score
classify_article_topic(title, content) ==
    LET s    == topic_scores(title, content)
        best == CHOOSE i \in DOMAIN TopicOrder :
                    /\ \A j \in DOMAIN TopicOrder : s[j] <= s[i]
                    /\ \A j \in DOMAIN TopicOrder : j < i => s[j] < s[i]
    IN  IF meets_threshold(s[best]) THEN TopicChars[TopicOrder[best]] ELSE GeneralChars

is_indian_content(title, content, source) ==
    LET text == str_lower(title \o <<" ">> \o content \o <<" ">> \o source)
    IN  \E i \in DOMAIN indian_keywords : is_substring(indian_keywords[i], text)

(***************************************************************************)
(* fetch_rss_feed_with_timeout: from the parsed feed to the articles       *)
(***************************************************************************)

\* for entry in feed_data.entries[:15]
EntriesPerFeed == 15

RssPrefix == <<"R", "S", "S", " ", "-", " ">>

\* An entry is [title, summary, link, hours_old]; hours_old stands for the
\* parsed date, as the age the ranking will find.  nulls is the set of the
\* keys of the dict that hold None: none for an article parsed from a feed.
entry_article(entry, feed) ==
    LET title   == str_strip(entry.title)
        content == str_strip(entry.summary)
        url     == str_strip(entry.link)
    IN  [title            |-> title,
         description      |-> content,
         url              |-> url,
         hours_old        |-> entry.hours_old,
         source_name      |-> RssPrefix \o feed.source,
         is_indian        |-> is_indian_content(title, content, feed.source),
         api_source       |-> "rss",
         topic            |-> classify_article_topic(title, content),
         feed_category    |-> feed.category,
         feed_reliability |-> feed.reliability,
         nulls            |-> {}]

\* if not title or not url: continue
entry_usable(entry) == str_strip(entry.title) # <<>> /\ str_strip(entry.link) # <<>>

feed_articles(entries, feed) ==
    LET usable == SelectSeq(Take(entries, EntriesPerFeed), entry_usable)
    IN  [i \in DOMAIN usable |-> entry_article(usable[i], feed)]

(***************************************************************************)
(* fetch_all_rss_feeds: the feeds of one batch                             *)
(***************************************************************************)

IntlGeneralTake == 5

IntlTechTake == 3

IndianNationalTake == 5

MaxFeedsPerBatch == 30

SemaphoreLimit == 10

select_by_focus(feeds, focus_indian) ==
    IF focus_indian
    THEN feeds.indian_national \o feeds.indian_business \o feeds.indian_technology
         \o feeds.indian_sports \o Take(feeds.international_general, IntlGeneralTake)
         \o Take(feeds.international_technology, IntlTechTake)
    ELSE feeds.international_general \o feeds.international_technology
         \o feeds.international_business \o feeds.science_health
         \o Take(feeds.indian_national, IndianNationalTake)

\* if topic_filter: keep the feeds of that category, when there are any
select_by_topic(selected, topic_filter) ==
    IF truthy(topic_filter)
    THEN LET has_category(feed) == feed.category = topic_filter.s
             topic_feeds == SelectSeq(selected, has_category)
         IN  IF topic_feeds # <<>> THEN topic_feeds ELSE selected
    ELSE selected

not_failed_always(name, failed) == TRUE

\* feed['name'] not in self.failed_feeds
not_failed(name, failed) == name \notin failed

remove_failed(selected, failed) ==
    LET healthy(feed) == not_failed(feed.name, failed)
    IN  SelectSeq(selected, healthy)

\* The feeds a batch makes a task for, in the order of the tasks
batch_feeds(feeds, failed, focus_indian, topic_filter) ==
    LET selected == remove_failed(select_by_topic(select_by_focus(feeds, focus_indian),
                                                  topic_filter), failed)
        sorted   == sort_desc(selected, [i \in DOMAIN selected |-> selected[i].reliability])
    IN  Take(sorted, MaxFeedsPerBatch)

(***************************************************************************)
(* get_enhanced_news_feed: the store, the topic filter, the ranking        *)
(***************************************************************************)

StoreLimit == 20

StoreReliability == 90

\* column ILIKE '%x%', for an x without the wildcards % and _
ilike_contains(value, x) == is_substring(str_lower(x), str_lower(value))

\* A row is an Article joined with its NewsSource: [title, content, url,
\* topic, source_name, country, hours_old, nulls].  The columns of Article
\* are nullable: nulls is the set of the columns that hold NULL.
query_articles(rows, topic, source) ==
    LET matches(row) ==
            /\ truthy(topic) => ilike_contains(row.topic, topic.s)
            /\ truthy(source) => ilike_contains(row.source_name, source.s)
        found  == SelectSeq(rows, matches)
        newest == sort_desc(found, [i \in DOMAIN found |-> 0 - found[i].hours_old])
    IN  Take(newest, StoreLimit)

row_article(row) ==
    [title            |-> row.title,
     description      |-> row.content,
     url              |-> row.url,
     hours_old        |-> row.hours_old,
     source_name      |-> row.source_name,
     is_indian        |-> row.country = <<"i", "n">>,
     api_source       |-> "database",
     topic            |-> IF row.topic # <<>> THEN row.topic ELSE GeneralChars,
     feed_category    |-> <<>>,
     feed_reliability |-> StoreReliability,
     nulls            |-> {IF c = "content" THEN "description" ELSE c :
                             c \in row.nulls \cap {"title", "content", "url"}}]

\* The last test of filter_by_topic_intelligent: the topic has a keyword
\* list, and two of its keywords or more occur in the text
two_keywords(topic_lower, text) ==
    \E i \in DOMAIN TopicOrder :
        /\ TopicChars[TopicOrder[i]] = topic_lower
        /\ LET keywords == topic_keywords[TopicOrder[i]]
           IN  Cardinality({k \in DOMAIN keywords : is_substring(keywords[k], text)}) >= 2

topic_keeps(article, topic_lower) ==
    LET title   == str_lower(article.title)
        content == str_lower(article.description)
    IN  \/ str_lower(article.topic) = topic_lower
        \/ str_lower(article.feed_category) = topic_lower
        \/ is_substring(topic_lower, title)
        \/ is_substring(topic_lower, content)
        \/ two_keywords(topic_lower, title \o <<" ">> \o content)

\* An article kept by the last test alone gets the topic as its label.
topic_relabel(article, topic_lower) ==
    LET title   == str_lower(article.title)
        content == str_lower(article.description)
    IN  IF \/ str_lower(article.topic) = topic_lower
           \/ str_lower(article.feed_category) = topic_lower
           \/ is_substring(topic_lower, title)
           \/ is_substring(topic_lower, content)
        THEN article
        ELSE [article EXCEPT !.topic = topic_lower]

\* MUTANT of filter_by_topic_intelligent: every article is kept
filter_by_topic_keep_all(arts, topic) == arts

filter_by_topic_intelligent(arts, topic) ==
    IF ~truthy(topic) \/ str_lower(topic.s) = GeneralChars
    THEN arts
    ELSE LET topic_lower == str_lower(topic.s)
             keeps(article) == topic_keeps(article, topic_lower)
             kept == SelectSeq(arts, keeps)
         IN  [i \in DOMAIN kept |-> topic_relabel(kept[i], topic_lower)]

RecentHours == 6

DayHours == 24

ThreeDaysHours == 72

TitleLenMin == 30

TitleLenMax == 100

\* MUTANT of locale_bonus: nothing for Indian content
locale_bonus_none(article, focus_indian) == 0

\* if focus_indian and article.get('is_indian', False): score += 20
locale_bonus(article, focus_indian) ==
    IF focus_indian /\ article.is_indian THEN 2000 ELSE 0

\* calculate_relevance_score, times 100 (feed_reliability is times 100)
calculate_relevance_score(article, focus_indian) ==
    article.feed_reliability * 10
    + locale_bonus(article, focus_indian)
    + (IF article.hours_old < RecentHours THEN 1500
       ELSE IF article.hours_old < DayHours THEN 1000
       ELSE IF article.hours_old < ThreeDaysHours THEN 500 ELSE 0)
    + (IF TitleLenMin <= Len(article.title) /\ Len(article.title) <= TitleLenMax
       THEN 500 ELSE 0)
    + (IF str_strip(article.description) # <<>> THEN 500 ELSE 0)

sort_articles_by_relevance(arts, focus_indian) ==
    sort_desc(arts, [i \in DOMAIN arts |-> calculate_relevance_score(arts[i], focus_indian)])

\* MUTANT of paginate: the element at offset + limit is returned too
paginate_inclusive(sorted_articles, offset, limit) ==
    Slice(sorted_articles, offset, offset + limit + 1)

\* sorted_articles[offset:offset + limit]
paginate(sorted_articles, offset, limit) ==
    Slice(sorted_articles, offset, offset + limit)

\* The list get_enhanced_news_feed sorts: the articles of the feeds, then
\* those of the store, without the duplicates, of the topic asked for
all_articles(rss_articles, rows, p) ==
    LET db_articles == query_articles(rows, p.topic, p.source)
    IN  rss_articles \o [i \in DOMAIN db_articles |-> row_article(db_articles[i])]

\* article.get('url', '').strip() and article.get('title', '').strip() of
\* remove_duplicates_advanced raise on None, for every article of the list;
\* article.get('description', '').lower() of the topic filter and
\* article.get('description', '').strip() of the ranking raise on None, for
\* the articles the steps before them let through.
pipeline_raises(rss_articles, rows, p) ==
    LET arts == all_articles(rss_articles, rows, p)
    IN  \/ \E i \in DOMAIN arts : arts[i].nulls \cap {"title", "url"} # {}
        \/ LET unique_articles == remove_duplicates_advanced(arts)
           IN  \E i \in DOMAIN unique_articles : "description" \in unique_articles[i].nulls

\* From the fetched articles to the page the call returns
feed_page(rss_articles, rows, p) ==
    LET unique_articles == remove_duplicates_advanced(all_articles(rss_articles, rows, p))
        filtered == IF truthy(p.topic)
                    THEN filter_by_topic_intelligent(unique_articles, p.topic)
                    ELSE unique_articles
        sorted_articles == sort_articles_by_relevance(filtered, p.focus_indian)
    IN  paginate(sorted_articles, p.offset, p.limit)

\* except Exception: return []
enhanced_news_feed(rss_articles, rows, p) ==
    IF pipeline_raises(rss_articles, rows, p)
    THEN <<>>
    ELSE feed_page(rss_articles, rows, p)

(***************************************************************************)
(* The worlds the model runs in: the catalogue of feeds (cut down), what   *)
(* the feeds serve, the rows of the store, what the clients ask            *)
(***************************************************************************)

GroupNames == {"indian_national", "indian_business", "indian_technology", "indian_sports",
               "international_general", "international_technology",
               "international_business", "science_health"}

\* The bounds: the batches the clients may start in each world, the
\* feeds of the big catalogue, the length of a list given to the dedupe
MaxBatches == 2

MaxBatchesOverlap == 3

MaxBatchesSem == 1

NumBigFeeds == 11

MaxLen == 3

NoFeeds == [g \in GroupNames |-> <<>>]

TimesOfIndia == [name |-> "Times of India", source |-> <<"T", "i", "m", "e", "s", " ", "o", "f", " ", "I", "n", "d", "i", "a">>,
                 reliability |-> 90, category |-> GeneralChars]

EconomicTimes == [name |-> "Economic Times", source |-> <<"E", "c", "o", "n", "o", "m", "i", "c", " ", "T", "i", "m", "e", "s">>,
                  reliability |-> 95, category |-> TopicChars.business]

\* One feed of each of two groups
SmallCatalog == [NoFeeds EXCEPT !.indian_national = <<TimesOfIndia>>,
                                !.indian_business = <<EconomicTimes>>]

OneFeedCatalog == [NoFeeds EXCEPT !.indian_national = <<TimesOfIndia>>]

BigFeed(k) == [name |-> "Feed " \o LowerChars[k], source |-> <<"F", "e", "e", "d", " ">> \o <<LowerChars[k]>>,
               reliability |-> 90, category |-> GeneralChars]

\* More feeds in the first group than the semaphore admits
BigCatalog == [NoFeeds EXCEPT !.indian_national = [k \in 1..NumBigFeeds |-> BigFeed(k)]]

GovtTitleA == <<"G", "o", "v", "t", " ", "p", "o", "l", "i", "c", "y", "!", "!">>

GovtTitleB == <<"g", "o", "v", "t", " ", "p", "o", "l", "i", "c", "y">>

SmallEntries ==
    [n \in {"Times of India", "Economic Times"} |->
        IF n = "Times of India"
        THEN << [title |-> <<" ">> \o GovtTitleA, summary |-> <<>>,
                 link |-> <<"u", "1", " ">>, hours_old |-> 2],
                [title |-> <<"N", "o", " ", "l", "i", "n", "k">>, summary |-> <<>>,
                 link |-> <<>>, hours_old |-> 2] >>
        ELSE << [title |-> <<"M", "a", "r", "k", "e", "t", " ", "u", "p">>, summary |-> <<"m", "a", "r", "k", "e", "t">>,
                 link |-> <<"u", "2">>, hours_old |-> 30] >>]

BigEntries ==
    [n \in {BigFeed(k).name : k \in 1..NumBigFeeds} |->
        << [title |-> GovtTitleB, summary |-> <<>>, link |-> <<"u", "1">>, hours_old |-> 2] >>]

SmallRows == << [title |-> <<"I", "n", "d", "i", "a", " ", "e", "l", "e", "c", "t", "i", "o", "n">>, content |-> <<>>, url |-> <<"u", "3">>,
                 topic |-> TopicChars.politics, source_name |-> <<"N", "D", "T", "V">>,
                 country |-> <<"i", "n">>, hours_old |-> 100, nulls |-> {}] >>

\* The parameters of the route: its defaults
DefaultParams == [topic |-> PyNone, source |-> PyNone, limit |-> 50, offset |-> 0,
                  focus_indian |-> TRUE]

\* A request for one topic
BusinessParams == [DefaultParams EXCEPT !.topic = PyStr(TopicChars.business)]

\* The addresses a Session object can get
SessionAddrs == {16, 32}

\* self.rss_feeds as it is in the source: 62 feeds in 8 groups
AllRssFeeds ==
    [
     indian_national |->
       << [name |-> "Times of India", source |-> <<"T", "i", "m", "e", "s", " ", "o", "f", " ", "I", "n", "d", "i", "a">>,
          reliability |-> 90, category |-> <<"g", "e", "n", "e", "r", "a", "l">>],
          [name |-> "The Hindu", source |-> <<"T", "h", "e", " ", "H", "i", "n", "d", "u">>,
          reliability |-> 95, category |-> <<"g", "e", "n", "e", "r", "a", "l">>],
          [name |-> "Indian Express", source |-> <<"I", "n", "d", "i", "a", "n", " ", "E", "x", "p", "r", "e", "s", "s">>,
          reliability |-> 90, category |-> <<"g", "e", "n", "e", "r", "a", "l">>],
          [name |-> "Hindustan Times", source |-> <<"H", "i", "n", "d", "u", "s", "t", "a", "n", " ", "T", "i", "m", "e", "s">>,
          reliability |-> 85, category |-> <<"g", "e", "n", "e", "r", "a", "l">>],
          [name |-> "NDTV", source |-> <<"N", "D", "T", "V">>,
          reliability |-> 90, category |-> <<"g", "e", "n", "e", "r", "a", "l">>],
          [name |-> "India Today", source |-> <<"I", "n", "d", "i", "a", " ", "T", "o", "d", "a", "y">>,
          reliability |-> 85, category |-> <<"g", "e", "n", "e", "r", "a", "l">>],
          [name |-> "News18", source |-> <<"N", "e", "w", "s", "1", "8">>,
          reliability |-> 80, category |-> <<"g", "e", "n", "e", "r", "a", "l">>],
          [name |-> "Republic World", source |-> <<"R", "e", "p", "u", "b", "l", "i", "c", " ", "W", "o", "r", "l", "d">>,
          reliability |-> 75, category |-> <<"g", "e", "n", "e", "r", "a", "l">>],
          [name |-> "Zee News", source |-> <<"Z", "e", "e", " ", "N", "e", "w", "s">>,
          reliability |-> 70, category |-> <<"g", "e", "n", "e", "r", "a", "l">>],
          [name |-> "Firstpost", source |-> <<"F", "i", "r", "s", "t", "p", "o", "s", "t">>,
          reliability |-> 80, category |-> <<"g", "e", "n", "e", "r", "a", "l">>],
          [name |-> "The Quint", source |-> <<"T", "h", "e", " ", "Q", "u", "i", "n", "t">>,
          reliability |-> 85, category |-> <<"g", "e", "n", "e", "r", "a", "l">>],
          [name |-> "Scroll.in", source |-> <<"S", "c", "r", "o", "l", "l", ".", "i", "n">>,
          reliability |-> 90, category |-> <<"g", "e", "n", "e", "r", "a", "l">>],
          [name |-> "The Wire", source |-> <<"T", "h", "e", " ", "W", "i", "r", "e">>,
          reliability |-> 85, category |-> <<"g", "e", "n", "e", "r", "a", "l">>],
          [name |-> "National Herald", source |-> <<"N", "a", "t", "i", "o", "n", "a", "l", " ", "H", "e", "r", "a", "l", "d">>,
          reliability |-> 75, category |-> <<"g", "e", "n", "e", "r", "a", "l">>],
          [name |-> "Outlook India", source |-> <<"O", "u", "t", "l", "o", "o", "k", " ", "I", "n", "d", "i", "a">>,
          reliability |-> 80, category |-> <<"g", "e", "n", "e", "r", "a", "l">>] >>,
     indian_business |->
       << [name |-> "Economic Times", source |-> <<"E", "c", "o", "n", "o", "m", "i", "c", " ", "T", "i", "m", "e", "s">>,
          reliability |-> 95, category |-> <<"b", "u", "s", "i", "n", "e", "s", "s">>],
          [name |-> "Live Mint", source |-> <<"L", "i", "v", "e", " ", "M", "i", "n", "t">>,
          reliability |-> 90, category |-> <<"b", "u", "s", "i", "n", "e", "s", "s">>],
          [name |-> "Business Standard", source |-> <<"B", "u", "s", "i", "n", "e", "s", "s", " ", "S", "t", "a", "n", "d", "a", "r", "d">>,
          reliability |-> 90, category |-> <<"b", "u", "s", "i", "n", "e", "s", "s">>],
          [name |-> "Moneycontrol", source |-> <<"M", "o", "n", "e", "y", "c", "o", "n", "t", "r", "o", "l">>,
          reliability |-> 85, category |-> <<"b", "u", "s", "i", "n", "e", "s", "s">>],
          [name |-> "Financial Express", source |-> <<"F", "i", "n", "a", "n", "c", "i", "a", "l", " ", "E", "x", "p", "r", "e", "s", "s">>,
          reliability |-> 85, category |-> <<"b", "u", "s", "i", "n", "e", "s", "s">>],
          [name |-> "BloombergQuint", source |-> <<"B", "l", "o", "o", "m", "b", "e", "r", "g", "Q", "u", "i", "n", "t">>,
          reliability |-> 90, category |-> <<"b", "u", "s", "i", "n", "e", "s", "s">>],
          [name |-> "ET Now", source |-> <<"E", "T", " ", "N", "o", "w">>,
          reliability |-> 80, category |-> <<"b", "u", "s", "i", "n", "e", "s", "s">>],
          [name |-> "Zee Business", source |-> <<"Z", "e", "e", " ", "B", "u", "s", "i", "n", "e", "s", "s">>,
          reliability |-> 75, category |-> <<"b", "u", "s", "i", "n", "e", "s", "s">>] >>,
     indian_technology |->
       << [name |-> "ET Tech", source |-> <<"E", "T", " ", "T", "e", "c", "h">>,
          reliability |-> 90, category |-> <<"t", "e", "c", "h", "n", "o", "l", "o", "g", "y">>],
          [name |-> "TechCircle", source |-> <<"T", "e", "c", "h", "C", "i", "r", "c", "l", "e">>,
          reliability |-> 85, category |-> <<"t", "e", "c", "h", "n", "o", "l", "o", "g", "y">>],
          [name |-> "Inc42", source |-> <<"I", "n", "c", "4", "2">>,
          reliability |-> 80, category |-> <<"t", "e", "c", "h", "n", "o", "l", "o", "g", "y">>],
          [name |-> "YourStory", source |-> <<"Y", "o", "u", "r", "S", "t", "o", "r", "y">>,
          reliability |-> 80, category |-> <<"t", "e", "c", "h", "n", "o", "l", "o", "g", "y">>],
          [name |-> "Gadgets 360", source |-> <<"G", "a", "d", "g", "e", "t", "s", " ", "3", "6", "0">>,
          reliability |-> 85, category |-> <<"t", "e", "c", "h", "n", "o", "l", "o", "g", "y">>],
          [name |-> "91mobiles", source |-> <<"9", "1", "m", "o", "b", "i", "l", "e", "s">>,
          reliability |-> 75, category |-> <<"t", "e", "c", "h", "n", "o", "l", "o", "g", "y">>],
          [name |-> "Digit", source |-> <<"D", "i", "g", "i", "t">>,
          reliability |-> 80, category |-> <<"t", "e", "c", "h", "n", "o", "l", "o", "g", "y">>],
          [name |-> "Analytics India Magazine", source |-> <<"A", "n", "a", "l", "y", "t", "i", "c", "s", " ", "I", "n", "d", "i", "a", " ", "M", "a", "g", "a", "z", "i", "n", "e">>,
          reliability |-> 85, category |-> <<"t", "e", "c", "h", "n", "o", "l", "o", "g", "y">>] >>,
     indian_sports |->
       << [name |-> "Sportstar", source |-> <<"S", "p", "o", "r", "t", "s", "t", "a", "r">>,
          reliability |-> 90, category |-> <<"s", "p", "o", "r", "t", "s">>],
          [name |-> "TOI Sports", source |-> <<"T", "O", "I", " ", "S", "p", "o", "r", "t", "s">>,
          reliability |-> 85, category |-> <<"s", "p", "o", "r", "t", "s">>],
          [name |-> "NDTV Sports", source |-> <<"N", "D", "T", "V", " ", "S", "p", "o", "r", "t", "s">>,
          reliability |-> 85, category |-> <<"s", "p", "o", "r", "t", "s">>],
          [name |-> "myKhel", source |-> <<"m", "y", "K", "h", "e", "l">>,
          reliability |-> 75, category |-> <<"s", "p", "o", "r", "t", "s">>],
          [name |-> "Sportskeeda", source |-> <<"S", "p", "o", "r", "t", "s", "k", "e", "e", "d", "a">>,
          reliability |-> 80, category |-> <<"s", "p", "o", "r", "t", "s">>] >>,
     international_general |->
       << [name |-> "BBC World", source |-> <<"B", "B", "C">>,
          reliability |-> 95, category |-> <<"g", "e", "n", "e", "r", "a", "l">>],
          [name |-> "Reuters", source |-> <<"R", "e", "u", "t", "e", "r", "s">>,
          reliability |-> 95, category |-> <<"g", "e", "n", "e", "r", "a", "l">>],
          [name |-> "CNN International", source |-> <<"C", "N", "N">>,
          reliability |-> 90, category |-> <<"g", "e", "n", "e", "r", "a", "l">>],
          [name |-> "Al Jazeera", source |-> <<"A", "l", " ", "J", "a", "z", "e", "e", "r", "a">>,
          reliability |-> 85, category |-> <<"g", "e", "n", "e", "r", "a", "l">>],
          [name |-> "The Guardian", source |-> <<"T", "h", "e", " ", "G", "u", "a", "r", "d", "i", "a", "n">>,
          reliability |-> 90, category |-> <<"g", "e", "n", "e", "r", "a", "l">>],
          [name |-> "Associated Press", source |-> <<"A", "s", "s", "o", "c", "i", "a", "t", "e", "d", " ", "P", "r", "e", "s", "s">>,
          reliability |-> 95, category |-> <<"g", "e", "n", "e", "r", "a", "l">>],
          [name |-> "NPR", source |-> <<"N", "P", "R">>,
          reliability |-> 90, category |-> <<"g", "e", "n", "e", "r", "a", "l">>],
          [name |-> "France24", source |-> <<"F", "r", "a", "n", "c", "e", "2", "4">>,
          reliability |-> 85, category |-> <<"g", "e", "n", "e", "r", "a", "l">>],
          [name |-> "Deutsche Welle", source |-> <<"D", "e", "u", "t", "s", "c", "h", "e", " ", "W", "e", "l", "l", "e">>,
          reliability |-> 85, category |-> <<"g", "e", "n", "e", "r", "a", "l">>] >>,
     international_technology |->
       << [name |-> "TechCrunch", source |-> <<"T", "e", "c", "h", "C", "r", "u", "n", "c", "h">>,
          reliability |-> 90, category |-> <<"t", "e", "c", "h", "n", "o", "l", "o", "g", "y">>],
          [name |-> "Ars Technica", source |-> <<"A", "r", "s", " ", "T", "e", "c", "h", "n", "i", "c", "a">>,
          reliability |-> 90, category |-> <<"t", "e", "c", "h", "n", "o", "l", "o", "g", "y">>],
          [name |-> "The Verge", source |-> <<"T", "h", "e", " ", "V", "e", "r", "g", "e">>,
          reliability |-> 85, category |-> <<"t", "e", "c", "h", "n", "o", "l", "o", "g", "y">>],
          [name |-> "Wired", source |-> <<"W", "i", "r", "e", "d">>,
          reliability |-> 90, category |-> <<"t", "e", "c", "h", "n", "o", "l", "o", "g", "y">>],
          [name |-> "Engadget", source |-> <<"E", "n", "g", "a", "d", "g", "e", "t">>,
          reliability |-> 80, category |-> <<"t", "e", "c", "h", "n", "o", "l", "o", "g", "y">>],
          [name |-> "MIT Technology Review", source |-> <<"M", "I", "T", " ", "T", "e", "c", "h", "n", "o", "l", "o", "g", "y", " ", "R", "e", "v", "i", "e", "w">>,
          reliability |-> 95, category |-> <<"t", "e", "c", "h", "n", "o", "l", "o", "g", "y">>],
          [name |-> "VentureBeat", source |-> <<"V", "e", "n", "t", "u", "r", "e", "B", "e", "a", "t">>,
          reliability |-> 85, category |-> <<"t", "e", "c", "h", "n", "o", "l", "o", "g", "y">>] >>,
     international_business |->
       << [name |-> "Bloomberg", source |-> <<"B", "l", "o", "o", "m", "b", "e", "r", "g">>,
          reliability |-> 95, category |-> <<"b", "u", "s", "i", "n", "e", "s", "s">>],
          [name |-> "Financial Times", source |-> <<"F", "i", "n", "a", "n", "c", "i", "a", "l", " ", "T", "i", "m", "e", "s">>,
          reliability |-> 95, category |-> <<"b", "u", "s", "i", "n", "e", "s", "s">>],
          [name |-> "Wall Street Journal", source |-> <<"W", "a", "l", "l", " ", "S", "t", "r", "e", "e", "t", " ", "J", "o", "u", "r", "n", "a", "l">>,
          reliability |-> 95, category |-> <<"b", "u", "s", "i", "n", "e", "s", "s">>],
          [name |-> "Forbes", source |-> <<"F", "o", "r", "b", "e", "s">>,
          reliability |-> 85, category |-> <<"b", "u", "s", "i", "n", "e", "s", "s">>],
          [name |-> "MarketWatch", source |-> <<"M", "a", "r", "k", "e", "t", "W", "a", "t", "c", "h">>,
          reliability |-> 80, category |-> <<"b", "u", "s", "i", "n", "e", "s", "s">>] >>,
     science_health |->
       << [name |-> "Nature News", source |-> <<"N", "a", "t", "u", "r", "e">>,
          reliability |-> 95, category |-> <<"s", "c", "i", "e", "n", "c", "e">>],
          [name |-> "Science Daily", source |-> <<"S", "c", "i", "e", "n", "c", "e", " ", "D", "a", "i", "l", "y">>,
          reliability |-> 90, category |-> <<"s", "c", "i", "e", "n", "c", "e">>],
          [name |-> "NASA News", source |-> <<"N", "A", "S", "A">>,
          reliability |-> 95, category |-> <<"s", "c", "i", "e", "n", "c", "e">>],
          [name |-> "WHO News", source |-> <<"W", "H", "O">>,
          reliability |-> 95, category |-> <<"h", "e", "a", "l", "t", "h">>],
          [name |-> "Medical News Today", source |-> <<"M", "e", "d", "i", "c", "a", "l", " ", "N", "e", "w", "s", " ", "T", "o", "d", "a", "y">>,
          reliability |-> 85, category |-> <<"h", "e", "a", "l", "t", "h">>] >>]

\* The feeds of AllRssFeeds that can be found in quarantine when a batch starts
WideFlaky == {"The Hindu", "BBC World", "Reuters", "Economic Times", "Inc42"}

\* A request for the international selection
InternationalParams == [DefaultParams EXCEPT !.focus_indian = FALSE]

\* A store whose one article has no content: news_service.py stores
\* article_data.get("content", ""), which is None when the API sent null
NullRows == << [title |-> <<"B", "u", "d", "g", "e", "t">>, content |-> <<>>, url |-> <<"u", "5">>,
                topic |-> TopicChars.business, source_name |-> <<"M", "i", "n", "t">>,
                country |-> <<"i", "n">>, hours_old |-> 50, nulls |-> {"content"}] >>

\* flaky: the feeds whose fetch may fail, find nothing, or outlast its
\* timeout.  The other feeds answer with their entries, in the order asked.
Worlds ==
    [small   |-> [catalog |-> SmallCatalog, entries |-> SmallEntries,
                  flaky |-> {"Times of India", "Economic Times"}, rows |-> SmallRows,
                  params |-> {DefaultParams, BusinessParams}, addrs |-> SessionAddrs],
     overlap |-> [catalog |-> OneFeedCatalog, entries |-> SmallEntries,
                  flaky |-> {"Times of India"}, rows |-> <<>>,
                  params |-> {DefaultParams}, addrs |-> SessionAddrs],
     big     |-> [catalog |-> BigCatalog, entries |-> BigEntries,
                  flaky |-> {BigFeed(1).name, BigFeed(NumBigFeeds).name}, rows |-> <<>>,
                  params |-> {DefaultParams}, addrs |-> {16}],
     null    |-> [catalog |-> SmallCatalog, entries |-> SmallEntries,
                  flaky |-> {"Times of India", "Economic Times"}, rows |-> NullRows,
                  params |-> {DefaultParams}, addrs |-> SessionAddrs],
     wide    |-> [catalog |-> AllRssFeeds,
                  entries |-> [n \in {f.name : f \in UNION {{AllRssFeeds[g][i] :
                                          i \in DOMAIN AllRssFeeds[g]} : g \in GroupNames}} |-> <<>>],
                  flaky |-> WideFlaky, rows |-> <<>>,
                  params |-> {DefaultParams, BusinessParams, InternationalParams},
                  addrs |-> {16}]]

(***************************************************************************)
(* The state                                                               *)
(***************************************************************************)

VARIABLES
    world,               \* which of Worlds the model runs in
    failed_feeds,        \* self.failed_feeds: a set of feed names
    feed_performance,    \* self.feed_performance: feed name -> number of samples
    redis,               \* redis_client: the entries [key, text, params] not yet expired
    call,                \* the requests: client -> the call it last made
    loop_blocked,        \* the task whose teardown holds the event loop, or NoTask
    batches_left,        \* the batches the clients may still start
    pardoned,            \* history: the feeds the last reset took out, until the next batch
    articles,            \* the list given to remove_duplicates_advanced (SpecDedupe)
    unique_articles,     \* the list it returned
    dedupe_done,         \* whether it has returned
    unique_again,        \* the list it returned when given unique_articles
    again_done,          \* whether that second call has returned
    calls_left,          \* the calls of wrapped functions that may still run (SpecCache)
    last,                \* history: the last operation on the cache and what it returned
    doc,                 \* the title and content given to classify_article_topic (SpecClassify)
    scores,              \* topic_scores when it returns
    topic,               \* the topic it returned
    unranked,            \* the list given to sort_articles_by_relevance (SpecRank)
    focus,               \* its focus_indian
    ranked,              \* the list it returned
    rank_done,           \* whether it has returned
    fed,                 \* what the body of get_enhanced_news_feed works on (SpecPage)
    page,                \* the list it returned
    page_done,           \* whether it has returned
    stats,               \* what get_performance_stats last returned
    pending              \* the calls of wrapped functions that are running (SpecCache)

vars == <<world, failed_feeds, feed_performance, redis, call, loop_blocked, batches_left,
          pardoned, articles, unique_articles, dedupe_done, unique_again, again_done,
          calls_left, last, doc, scores, topic, unranked, focus, ranked, rank_done,
          fed, page, page_done, stats, pending>>

dedupe_vars == <<articles, unique_articles, dedupe_done, unique_again, again_done>>

service_vars == <<world, failed_feeds, feed_performance, redis, call, loop_blocked,
                  batches_left, pardoned>>

decorator_vars == <<calls_left, last>>

classify_vars == <<doc, scores, topic>>

rank_vars == <<unranked, focus, ranked, rank_done>>

page_vars == <<fed, page, page_done>>

\* self.rss_feeds: group -> sequence of feeds
rss_feeds == Worlds[world].catalog

World == Worlds[world]

NoTask == <<0, 0>>

Clients == DOMAIN call

TaskIds(c) == DOMAIN call[c].task

AllFeeds == Concat(<<rss_feeds.indian_national, rss_feeds.indian_business,
                     rss_feeds.indian_technology, rss_feeds.indian_sports,
                     rss_feeds.international_general, rss_feeds.international_technology,
                     rss_feeds.international_business, rss_feeds.science_health>>)

FeedNames == {AllFeeds[i].name : i \in DOMAIN AllFeeds}

feed_named(name) == AllFeeds[CHOOSE i \in DOMAIN AllFeeds : AllFeeds[i].name = name]

CatalogFeeds(catalog) ==
    UNION {{catalog[g][i] : i \in DOMAIN catalog[g]} : g \in GroupNames}

\* What a fetch of each feed returns when its thread brings the entries,
\* computed once
FetchedArticles ==
    UNION {{[world |-> w, feed |-> f.name,
             list |-> feed_articles(Worlds[w].entries[f.name], f)] :
               f \in CatalogFeeds(Worlds[w].catalog)} : w \in DOMAIN Worlds}

fetched(name) == (CHOOSE m \in FetchedArticles : m.world = world /\ m.feed = name).list

\* db: the address of the Session of the request, 0 once it is closed
IdleCall == [pc |-> "idle", params |-> DefaultParams, db |-> 0, hit |-> FALSE,
             task |-> <<>>, rss |-> <<>>, result |-> <<>>]

InitService(w, clients, calls) ==
    /\ world = w
    /\ failed_feeds = {}
    /\ feed_performance = [n \in DOMAIN Worlds[w].entries |-> 0]
    /\ redis = {}
    /\ call = [c \in clients |-> IdleCall]
    /\ loop_blocked = NoTask
    /\ batches_left = calls
    /\ pardoned = {}

\* No operation on the cache yet
NoOp == [op |-> "none", prefix |-> PyNone, name |-> <<>>, args |-> <<>>, hit |-> FALSE,
         value |-> PyNone]

InitNoCalls ==
    /\ calls_left = 0
    /\ last = NoOp

InitNoClassify ==
    /\ doc = [title |-> <<>>, content |-> <<>>]
    /\ scores = <<>>
    /\ topic = <<>>

InitNoRank ==
    /\ unranked = <<>>
    /\ focus = FALSE
    /\ ranked = <<>>
    /\ rank_done = FALSE

\* get_performance_stats has not been called
NoStats == [total_feeds |-> 0, failed_feeds |-> 0, total_requests |-> <<>>, status |-> <<>>]

InitNoPage ==
    /\ fed = [rss |-> <<>>, rows |-> <<>>, params |-> DefaultParams]
    /\ page = <<>>
    /\ page_done = FALSE
    /\ stats = NoStats
    /\ pending = {}

InitNoDedupe ==
    /\ articles = <<>>
    /\ unique_articles = <<>>
    /\ dedupe_done = FALSE
    /\ unique_again = <<>>
    /\ again_done = FALSE

\* One client, two feeds, either of which may fail
Init ==
    /\ InitService("small", {1}, MaxBatches)
    /\ InitNoDedupe
    /\ InitNoCalls
    /\ InitNoClassify
    /\ InitNoRank
    /\ InitNoPage

\* Two clients, whose requests overlap, and one feed, which may fail
InitOverlap ==
    /\ InitService("overlap", {1, 2}, MaxBatchesOverlap)
    /\ InitNoDedupe
    /\ InitNoCalls
    /\ InitNoClassify
    /\ InitNoRank
    /\ InitNoPage

\* One client, more feeds than the semaphore admits; the first and the last,
\* which starts when another has ended, may fail
InitSem ==
    /\ InitService("big", {1}, MaxBatchesSem)
    /\ InitNoDedupe
    /\ InitNoCalls
    /\ InitNoClassify
    /\ InitNoRank
    /\ InitNoPage

(***************************************************************************)
(* The cache decorator around get_enhanced_news_feed                       *)
(***************************************************************************)

AllParams == UNION {Worlds[w].params : w \in DOMAIN Worlds}

AllAddrs == UNION {Worlds[w].addrs : w \in DOMAIN Worlds}

SessionClass == <<"S", "e", "s", "s", "i", "o", "n">>

\* The key of each request the clients can make, computed once
RouteKeys == {[db |-> d, params |-> p, key |-> feed_cache_key(PyObj(SessionClass, d), p)] :
                 d \in AllAddrs, p \in AllParams}

request_key(d, p) == (CHOOSE k \in RouteKeys : k.db = d /\ k.params = p).key

redis_has(key) == \E e \in redis : e.key = key

redis_get(key) == (CHOOSE e \in redis : e.key = key).text

\* redis_client.setex(key, ttl, text); params is history: the parameters of
\* the call whose result the text is
redis_setex(key, text, params) ==
    {e \in redis : e.key # key} \cup {[key |-> key, text |-> text, params |-> params]}

\* if cached_value: the text of a JSON value is never the empty string
cache_hit(key) == redis_has(key)

\* A result for these parameters was stored and has not expired
fresh_result(p) == \E e \in redis : e.params = p

LoopFree == loop_blocked = NoTask

\* A Session is made for the request; its address is one no Session of a
\* request still running has
SessionFree(d) == \A c \in Clients : call[c].pc = "fetching" => call[c].db # d

NewTask(feed) == [feed |-> feed.name, st |-> "pending", thread |-> "none", due |-> FALSE,
                  out |-> "none"]

\* The wrapper finds the key in the cache and returns the stored result.
RequestHit(c, p, d) ==
    LET key == request_key(d, p)
    IN  /\ LoopFree
        /\ call[c].pc \in {"idle", "returned"}
        /\ SessionFree(d)
        /\ cache_hit(key)
        /\ call' = [call EXCEPT ![c] =
                       [IdleCall EXCEPT !.pc = "returned", !.params = p, !.hit = TRUE,
                                        !.result = json_loads(redis_get(key))]]
        /\ UNCHANGED <<world, failed_feeds, feed_performance, redis, loop_blocked,
                       batches_left, pardoned, dedupe_vars, decorator_vars, classify_vars, rank_vars, page_vars, stats, pending>>

\* The wrapper finds no entry: get_enhanced_news_feed runs up to the gather
\* of fetch_all_rss_feeds, which has made one task for each feed of the batch.
RequestMiss(c, p, d) ==
    LET key == request_key(d, p)
    IN  /\ LoopFree
        /\ call[c].pc \in {"idle", "returned"}
        /\ batches_left > 0
        /\ SessionFree(d)
        /\ ~cache_hit(key)
        /\ \E feeds \in {batch_feeds(rss_feeds, failed_feeds, p.focus_indian, p.topic)} :
               call' = [call EXCEPT ![c] =
                           [IdleCall EXCEPT !.pc = "fetching", !.params = p, !.db = d,
                                            !.task = [i \in DOMAIN feeds |-> NewTask(feeds[i])]]]
        /\ batches_left' = batches_left - 1
        /\ pardoned' = {}
        /\ UNCHANGED <<world, failed_feeds, feed_performance, redis, loop_blocked,
                       dedupe_vars, decorator_vars, classify_vars, rank_vars, page_vars, stats, pending>>

(***************************************************************************)
(* The tasks of a batch                                                    *)
(***************************************************************************)

InFlight(c) == {i \in TaskIds(c) : call[c].task[i].st \in {"running", "teardown"}}

semaphore_open_always(held) == TRUE

\* asyncio.Semaphore(10): a task gets in while fewer than 10 hold it
semaphore_open(held) == held < SemaphoreLimit

\* A task gets the semaphore (the tasks wait for it in their order), arms
\* its timeout and hands feedparser.parse to a thread.
Launch(c, i) ==
    /\ LoopFree
    /\ call[c].pc = "fetching"
    /\ call[c].task[i].st = "pending"
    /\ \A j \in TaskIds(c) : j < i => call[c].task[j].st # "pending"
    /\ semaphore_open(Cardinality(InFlight(c)))
    /\ call' = [call EXCEPT ![c].task[i].st = "running", ![c].task[i].thread = "busy"]
    /\ UNCHANGED <<world, failed_feeds, feed_performance, redis, loop_blocked, batches_left,
                   pardoned, dedupe_vars, decorator_vars, classify_vars, rank_vars, page_vars, stats, pending>>

Flaky(c, i) == call[c].task[i].feed \in World.flaky

\* What the thread of a feed can end with: the parsed entries, a feed
\* without entries, an exception
ThreadResults(c, i) == IF Flaky(c, i) THEN {"entries", "empty", "exc"} ELSE {"entries"}

\* The feeds that are not flaky answer in the order asked.
InTurn(c, i, waiting) ==
    Flaky(c, i) \/ \A j \in TaskIds(c) : (j < i /\ ~Flaky(c, j)) => call[c].task[j].thread # waiting

quarantine_lost(failed, name) == failed

\* self.failed_feeds.add(feed['name'])
quarantine(failed, name) == failed \cup {name}

\* The task goes on after its await with the result r of the thread.
handle_result(c, i, r) ==
    LET name    == call[c].task[i].feed
        entries == IF r = "entries" THEN World.entries[name] ELSE <<>>
    IN  IF r = "exc"
        THEN /\ call' = [call EXCEPT ![c].task[i].st = "done", ![c].task[i].thread = "done",
                                     ![c].task[i].out = "error"]
             /\ failed_feeds' = quarantine(failed_feeds, name)
             /\ UNCHANGED feed_performance
        ELSE IF entries = <<>>
        THEN /\ call' = [call EXCEPT ![c].task[i].st = "done", ![c].task[i].thread = "done",
                                     ![c].task[i].out = "empty"]
             /\ UNCHANGED <<failed_feeds, feed_performance>>
        ELSE /\ call' = [call EXCEPT ![c].task[i].st = "done", ![c].task[i].thread = "done",
                                     ![c].task[i].out = "ok"]
             /\ feed_performance' = [feed_performance EXCEPT ![name] = @ + 1]
             /\ UNCHANGED failed_feeds

\* The task ends with asyncio.TimeoutError; dropped tells whether the
\* thread had brought its entries, which the task never looked at.
handle_timeout(c, i, dropped) ==
    LET name == call[c].task[i].feed
    IN  /\ call' = [call EXCEPT ![c].task[i].st = "done",
                                ![c].task[i].thread = IF dropped THEN "dropped" ELSE "done",
                                ![c].task[i].out = "timeout"]
        /\ failed_feeds' = quarantine(failed_feeds, name)
        /\ UNCHANGED feed_performance

\* The thread of a task ends.  A free loop takes the result at once; a loop
\* held by a teardown leaves it waiting.
ThreadFinish(c, i, r) ==
    /\ call[c].task[i].st = "running"
    /\ call[c].task[i].thread = "busy"
    /\ r \in ThreadResults(c, i)
    /\ InTurn(c, i, "busy")
    /\ IF LoopFree
       THEN handle_result(c, i, r)
       ELSE /\ call' = [call EXCEPT ![c].task[i].thread = r]
            /\ UNCHANGED <<failed_feeds, feed_performance>>
    /\ UNCHANGED <<world, redis, loop_blocked, batches_left, pardoned, dedupe_vars, decorator_vars, classify_vars, rank_vars, page_vars, stats, pending>>

\* The loop, free again, takes a result that waited.
Resume(c, i) ==
    /\ LoopFree
    /\ call[c].task[i].st = "running"
    /\ call[c].task[i].thread \in {"entries", "empty", "exc"}
    /\ ~call[c].task[i].due
    /\ InTurn(c, i, "entries")
    /\ handle_result(c, i, call[c].task[i].thread)
    /\ UNCHANGED <<world, redis, loop_blocked, batches_left, pardoned, dedupe_vars, decorator_vars, classify_vars, rank_vars, page_vars, stats, pending>>

\* The task is cancelled inside "with ThreadPoolExecutor(...)": leaving the
\* block is executor.shutdown(wait=True), which holds the loop's thread
\* until feedparser.parse has returned.
start_teardown(c, i) ==
    /\ call' = [call EXCEPT ![c].task[i].st = "teardown"]
    /\ loop_blocked' = <<c, i>>

\* The timeout of a task expires.  A free loop cancels the task at once
\* (its thread is still at work: a finished thread was taken at once); a
\* held loop leaves the expiry waiting.
TimerFire(c, i) ==
    /\ call[c].task[i].st = "running"
    /\ ~call[c].task[i].due
    /\ Flaky(c, i)
    /\ IF LoopFree
       THEN /\ call[c].task[i].thread = "busy"
            /\ start_teardown(c, i)
       ELSE /\ call' = [call EXCEPT ![c].task[i].due = TRUE]
            /\ UNCHANGED loop_blocked
    /\ UNCHANGED <<world, failed_feeds, feed_performance, redis, batches_left,
                   pardoned, dedupe_vars, decorator_vars, classify_vars, rank_vars, page_vars, stats, pending>>

\* The loop, free again, runs an expiry that waited: the task is cancelled,
\* whether or not its thread has finished meanwhile.
HandleDue(c, i) ==
    /\ LoopFree
    /\ call[c].task[i].st = "running"
    /\ call[c].task[i].due
    /\ IF call[c].task[i].thread = "busy"
       THEN /\ start_teardown(c, i)
            /\ UNCHANGED <<failed_feeds, feed_performance>>
       ELSE /\ handle_timeout(c, i, call[c].task[i].thread = "entries")
            /\ UNCHANGED loop_blocked
    /\ UNCHANGED <<world, redis, batches_left, pardoned, dedupe_vars, decorator_vars, classify_vars, rank_vars, page_vars, stats, pending>>

\* The thread of the task being torn down ends: shutdown returns, the
\* cancellation becomes TimeoutError, the loop is free again.
TeardownDone(c, i) ==
    /\ loop_blocked = <<c, i>>
    /\ handle_timeout(c, i, FALSE)
    /\ loop_blocked' = NoTask
    /\ UNCHANGED <<world, redis, batches_left, pardoned, dedupe_vars, decorator_vars, classify_vars, rank_vars, page_vars, stats, pending>>

\* for result in results: the lists of the tasks, in the order of the tasks
gather_results(tasks) ==
    Concat([i \in DOMAIN tasks |->
               IF tasks[i].out = "ok" THEN fetched(tasks[i].feed) ELSE <<>>])

\* All tasks are done: gather returns, the rest of get_enhanced_news_feed
\* runs, and the wrapper stores the page it returns.
Finish(c) ==
    /\ LoopFree
    /\ call[c].pc = "fetching"
    /\ \A i \in TaskIds(c) : call[c].task[i].st = "done"
    /\ LET rss    == gather_results(call[c].task)
           result == enhanced_news_feed(rss, World.rows, call[c].params)
       IN  /\ call' = [call EXCEPT ![c].pc = "returned", ![c].db = 0, ![c].rss = rss,
                                   ![c].result = result]
           /\ redis' = redis_setex(request_key(call[c].db, call[c].params),
                                   json_dumps(result), call[c].params)
    /\ UNCHANGED <<world, failed_feeds, feed_performance, loop_blocked, batches_left,
                   pardoned, dedupe_vars, decorator_vars, classify_vars, rank_vars, page_vars, stats, pending>>

(***************************************************************************)
(* reset_failed_feeds, and the expiry of a cache entry                     *)
(***************************************************************************)

\* MUTANT of clear: the set keeps its elements
clear_nothing(failed) == failed

\* self.failed_feeds.clear()
clear(failed) == {}

reset_failed_feeds ==
    /\ LoopFree
    /\ failed_feeds' = clear(failed_feeds)
    /\ pardoned' = pardoned \cup failed_feeds
    /\ UNCHANGED <<world, feed_performance, redis, call, loop_blocked, batches_left,
                   dedupe_vars, decorator_vars, classify_vars, rank_vars, page_vars, stats, pending>>

\* The TTL of an entry has run out: redis drops it.
Expire(key) ==
    /\ redis_has(key)
    /\ redis' = {e \in redis : e.key # key}
    /\ UNCHANGED <<world, failed_feeds, feed_performance, call, loop_blocked, batches_left,
                   pardoned, dedupe_vars, decorator_vars, classify_vars, rank_vars, page_vars, stats, pending>>

(***************************************************************************)
(* get_performance_stats                                                   *)
(***************************************************************************)

\* The dict get_performance_stats returns, without the times: the feeds of
\* the catalogue, the feeds in failed_feeds, and for each feed with samples
\* their number and whether the feed is in failed_feeds
performance_stats(feeds, failed, performance) ==
    LET sampled == {n \in DOMAIN performance : performance[n] > 0}
    IN  [total_feeds    |-> Len(feeds.indian_national) + Len(feeds.indian_business)
                            + Len(feeds.indian_technology) + Len(feeds.indian_sports)
                            + Len(feeds.international_general)
                            + Len(feeds.international_technology)
                            + Len(feeds.international_business) + Len(feeds.science_health),
         failed_feeds   |-> Cardinality(failed),
         total_requests |-> [n \in sampled |-> performance[n]],
         status         |-> [n \in sampled |-> IF n \in failed THEN "failed" ELSE "active"]]

\* The route /performance: the function has no await, it runs in one step
\* of the event loop
get_performance_stats ==
    /\ LoopFree
    /\ stats' = performance_stats(World.catalog, failed_feeds, feed_performance)
    /\ UNCHANGED <<service_vars, dedupe_vars, decorator_vars, classify_vars, rank_vars,
                   page_vars, pending>>

Next ==
    \/ \E c \in Clients, p \in World.params, d \in World.addrs : RequestHit(c, p, d)
    \/ \E c \in Clients, p \in World.params, d \in World.addrs : RequestMiss(c, p, d)
    \/ \E c \in Clients : \E i \in TaskIds(c) : Launch(c, i)
    \/ \E c \in Clients : \E i \in TaskIds(c) :
           \E r \in {"entries", "empty", "exc"} : ThreadFinish(c, i, r)
    \/ \E c \in Clients : \E i \in TaskIds(c) : Resume(c, i)
    \/ \E c \in Clients : \E i \in TaskIds(c) : TimerFire(c, i)
    \/ \E c \in Clients : \E i \in TaskIds(c) : HandleDue(c, i)
    \/ \E c \in Clients : \E i \in TaskIds(c) : TeardownDone(c, i)
    \/ \E c \in Clients : Finish(c)
    \/ reset_failed_feeds
    \/ \E e \in redis : Expire(e.key)

\* One client, two feeds either of which may fail
Spec == Init /\ [][Next]_vars

SpecOverlap == InitOverlap /\ [][Next]_vars

SpecSem == InitSem /\ [][Next]_vars

(***************************************************************************)
(* remove_duplicates_advanced on its own, over every short list of the     *)
(* articles below                                                          *)
(***************************************************************************)

\* The service with the route /performance
NextStats ==
    \/ Next
    \/ get_performance_stats

\* One client, two feeds, as many batches as in the world of the semaphore
InitStats ==
    /\ InitService("small", {1}, MaxBatchesSem)
    /\ InitNoDedupe
    /\ InitNoCalls
    /\ InitNoClassify
    /\ InitNoRank
    /\ InitNoPage

SpecStats == InitStats /\ [][NextStats]_vars

\* The start of a batch on the whole catalogue: some feeds are in
\* quarantine, one request starts its batch
InitBatch ==
    /\ world = "wide"
    /\ failed_feeds \in SUBSET WideFlaky
    /\ feed_performance = [n \in DOMAIN Worlds["wide"].entries |-> 0]
    /\ redis = {}
    /\ call = [c \in {1} |-> IdleCall]
    /\ loop_blocked = NoTask
    /\ batches_left = MaxBatchesSem
    /\ pardoned = {}
    /\ InitNoDedupe
    /\ InitNoCalls
    /\ InitNoClassify
    /\ InitNoRank
    /\ InitNoPage

NextBatch == \E c \in Clients, p \in World.params, d \in World.addrs : RequestMiss(c, p, d)

SpecBatch == InitBatch /\ [][NextBatch]_vars

\* One client, two feeds, a store with an article without content
InitNull ==
    /\ InitService("null", {1}, MaxBatches)
    /\ InitNoDedupe
    /\ InitNoCalls
    /\ InitNoClassify
    /\ InitNoRank
    /\ InitNoPage

SpecNull == InitNull /\ [][Next]_vars

\* Titles that differ in case and punctuation, in one word of five or of
\* six, in nothing but punctuation, in an underscore; an address met
\* twice; an article without title, one without address
DedupePool ==
    {[title |-> <<"G", "o", "v", "t", " ", "P", "o", "l", "i", "c", "y", "!", "!">>, url |-> <<"u", "1">>],
     [title |-> <<"g", "o", "v", "t", " ", "p", "o", "l", "i", "c", "y">>, url |-> <<"u", "2">>],
     [title |-> <<"g", "o", "v", "t", " ", "p", "o", "l", "i", "c", "y">>, url |-> <<" ", "u", "1", " ">>],
     [title |-> <<"!", "!">>, url |-> <<"u", "3">>],
     [title |-> <<"?", "?">>, url |-> <<"u", "4">>],
     [title |-> <<"a", " ", "b", " ", "c", " ", "d", " ", "e">>, url |-> <<"u", "5">>],
     [title |-> <<"a", " ", "b", " ", "c", " ", "d">>, url |-> <<"u", "6">>],
     [title |-> <<"a", " ", "b", " ", "c", " ", "d", " ", "e", " ", "f">>, url |-> <<"u", "7">>],
     [title |-> <<"x", " ", "y">>, url |-> <<"u", "5">>],
     [title |-> <<"a", "_", "b">>, url |-> <<"u", "8">>],
     [title |-> <<"a", "b">>, url |-> <<"u", "9">>],
     [title |-> <<>>, url |-> <<"u", "9">>],
     [title |-> <<"x", " ", "y">>, url |-> <<" ">>]}

BoundedSeq(S, n) == UNION {[1..k -> S] : k \in 0..n}

InitDedupe ==
    /\ InitService("small", {1}, MaxBatches)
    /\ articles \in BoundedSeq(DedupePool, MaxLen)
    /\ unique_articles = <<>>
    /\ dedupe_done = FALSE
    /\ unique_again = <<>>
    /\ again_done = FALSE
    /\ InitNoCalls
    /\ InitNoClassify
    /\ InitNoRank
    /\ InitNoPage

RunDedupe ==
    /\ ~dedupe_done
    /\ unique_articles' = remove_duplicates_advanced(articles)
    /\ dedupe_done' = TRUE
    /\ UNCHANGED <<articles, unique_again, again_done, service_vars, decorator_vars, classify_vars, rank_vars, page_vars, stats, pending>>

\* The list returned is given to remove_duplicates_advanced once more.
RunDedupeAgain ==
    /\ dedupe_done
    /\ ~again_done
    /\ unique_again' = remove_duplicates_advanced(unique_articles)
    /\ again_done' = TRUE
    /\ UNCHANGED <<articles, unique_articles, dedupe_done, service_vars, decorator_vars, classify_vars, rank_vars, page_vars, stats, pending>>

NextDedupe ==
    \/ RunDedupe
    \/ RunDedupeAgain

SpecDedupe == InitDedupe /\ [][NextDedupe]_vars

(***************************************************************************)
(* The properties                                                          *)
(***************************************************************************)

TaskFeeds(tasks) == {tasks[i].feed : i \in DOMAIN tasks}

\* The feeds a request with parameters p asks for, quarantine apart
Selected(p) ==
    LET feeds == batch_feeds(rss_feeds, {}, p.focus_indian, p.topic)
    IN  {feeds[i].name : i \in DOMAIN feeds}

\* The step in which client c starts a batch
BatchStarts(c) == call[c].pc # "fetching" /\ call'[c].pc = "fetching"

\* The step in which the batch of client c returns
BatchReturns(c) == call[c].pc = "fetching" /\ call'[c].pc = "returned"

\* The step in which task i of client c ends with one of the outcomes
TaskEnds(c, i, outcomes) ==
    /\ call[c].task[i].out = "none"
    /\ call'[c].task[i].out \in outcomes

Holds(list, article) == \E k \in DOMAIN list : list[k] = article

HoldsAll(list, part) == \A k \in DOMAIN part : Holds(list, part[k])

HoldsNoneOf(list, name) ==
    \A k \in DOMAIN list : list[k].source_name # RssPrefix \o feed_named(name).source

\* C1: a request whose parameters are those of a stored result that has not
\* expired starts no batch.
FreshRequestStartsNoBatch ==
    [][\A c \in Clients : BatchStarts(c) => ~fresh_result(call'[c].params)]_vars

\* C2: a task that times out puts its feed into failed_feeds, and the list
\* a batch returns holds every article of the feeds whose tasks succeeded
\* and no article of a feed whose task timed out.
TimedOutLeftOutAndQuarantined ==
    [][\A c \in Clients :
          /\ \A i \in TaskIds(c) :
                 TaskEnds(c, i, {"timeout"}) => call[c].task[i].feed \in failed_feeds'
          /\ BatchReturns(c) =>
                 \A i \in TaskIds(c) :
                     /\ call[c].task[i].out = "ok" =>
                            HoldsAll(call'[c].rss, fetched(call[c].task[i].feed))
                     /\ call[c].task[i].out = "timeout" =>
                            HoldsNoneOf(call'[c].rss, call[c].task[i].feed)]_vars

\* A batch has returned in which one task timed out, its feed is in
\* failed_feeds, and the articles of another are in the list
TimedOutBesideFetched ==
    \E c \in Clients :
        /\ call[c].pc = "returned"
        /\ \E i, j \in TaskIds(c) :
               /\ call[c].task[i].out = "timeout"
               /\ call[c].task[i].feed \in failed_feeds
               /\ HoldsNoneOf(call[c].rss, call[c].task[i].feed)
               /\ call[c].task[j].out = "ok"
               /\ fetched(call[c].task[j].feed) # <<>>
               /\ HoldsAll(call[c].rss, fetched(call[c].task[j].feed))

\* C3: while a task that timed out is torn down, no other task whose fetch
\* has ended waits to go on.
NoTaskWaitsForTeardown ==
    \A c \in Clients : \A i \in TaskIds(c) :
        call[c].task[i].st = "teardown" =>
            \A d \in Clients : \A j \in TaskIds(d) :
                ~(call[d].task[j].st = "running"
                  /\ call[d].task[j].thread \in {"entries", "empty", "exc"})

\* C4: a batch that starts has no task for a feed of failed_feeds, and no
\* step other than reset_failed_feeds takes a feed out of failed_feeds.
QuarantinedNotFetched ==
    [][/\ \A c \in Clients :
              BatchStarts(c) => TaskFeeds(call'[c].task) \cap failed_feeds = {}
       /\ failed_feeds \subseteq failed_feeds' \/ reset_failed_feeds]_vars

\* The one client runs a batch without a task for a feed that it asks for
\* and that is in failed_feeds
QuarantinedLeftOut ==
    /\ Cardinality(Clients) = 1
    /\ \E c \in Clients :
           /\ call[c].pc = "fetching"
           /\ \E name \in failed_feeds \cap Selected(call[c].params) :
                  name \notin TaskFeeds(call[c].task)

\* C5: the batch that starts next after a reset has a task for every feed
\* that it asks for and that the reset took out of failed_feeds.
PardonedFetchedNext ==
    [][\A c \in Clients :
          BatchStarts(c) =>
              pardoned \cap Selected(call'[c].params) \subseteq TaskFeeds(call'[c].task)]_vars

\* C6: the list a batch returns holds the articles of every feed whose
\* fetch brought its entries.
FetchedNeverDropped ==
    \A c \in Clients :
        (call[c].pc = "returned" /\ ~call[c].hit) =>
            \A i \in TaskIds(c) :
                call[c].task[i].thread = "dropped" =>
                    HoldsAll(call[c].rss, fetched(call[c].task[i].feed))

\* C7: at most SemaphoreLimit tasks of a batch are in flight.
AtMostTenInFlight ==
    \A c \in Clients : Cardinality(InFlight(c)) <= SemaphoreLimit

\* As many tasks in flight as the semaphore admits, and one that waits
SemaphoreFull ==
    \E c \in Clients :
        /\ Cardinality(InFlight(c)) = SemaphoreLimit
        /\ \E i \in TaskIds(c) : call[c].task[i].st = "pending"

\* C8: a task that ends in a timeout or an error adds one sample to the
\* feed_performance of its feed.
FailureSampled ==
    [][\A c \in Clients : \A i \in TaskIds(c) :
          TaskEnds(c, i, {"timeout", "error"}) =>
              feed_performance'[call[c].task[i].feed]
                  = feed_performance[call[c].task[i].feed] + 1]_vars

Kept(article) == str_strip(article.title) # <<>> /\ str_strip(article.url) # <<>>

\* C9: no two articles of the list remove_duplicates_advanced returns have
\* the same url, compared as the code compares them (stripped) or as given.
UniqueUrls ==
    dedupe_done =>
        \A i, j \in DOMAIN unique_articles :
            i # j => /\ str_strip(unique_articles[i].url) # str_strip(unique_articles[j].url)
                     /\ unique_articles[i].url # unique_articles[j].url

\* Two articles of the input with one url and titles without a common
\* word, of which one was returned
SameUrlDropped ==
    /\ dedupe_done
    /\ Len(articles) = 2
    /\ Kept(articles[1]) /\ Kept(articles[2])
    /\ str_strip(articles[1].url) = str_strip(articles[2].url)
    /\ title_similarity(articles[1].title, articles[2].title)[1] = 0
    /\ unique_articles = <<articles[1]>>

\* Neither a letter nor a digit nor blank
IsPunctuation(ch) ==
    ~(ch \in Range(UpperChars) \cup Range(LowerChars) \cup DigitChars \/ IsSpaceChar(ch))

NotPunctuation(ch) == ~IsPunctuation(ch)

NotPunctuationNorUnderscore(ch) == ~IsPunctuation(ch) \/ ch = "_"

\* The titles differ in nothing but letter case and punctuation
SameButCasePunctuation(title1, title2) ==
    SelectSeq(str_lower(title1), NotPunctuation) = SelectSeq(str_lower(title2), NotPunctuation)

\* The titles differ in nothing but letter case and punctuation other than
\* the underscore, and have a letter, a digit or an underscore
SameWordsButCasePunctuation(title1, title2) ==
    /\ SelectSeq(str_lower(title1), NotPunctuationNorUnderscore)
           = SelectSeq(str_lower(title2), NotPunctuationNorUnderscore)
    /\ \E k \in DOMAIN title1 : IsWordChar(title1[k])

\* The similarity of no two returned titles is above 4/5
NoSimilarTitles ==
    \A i, j \in DOMAIN unique_articles :
        i # j => LET sim == title_similarity(unique_articles[i].title, unique_articles[j].title)
                 IN  5 * sim[1] <= 4 * sim[2]

\* Two articles with title and url, the urls different
TwoArticles ==
    /\ Len(articles) = 2
    /\ Kept(articles[1]) /\ Kept(articles[2])
    /\ str_strip(articles[1].url) # str_strip(articles[2].url)

DedupeIdempotent ==
    again_done => unique_again = unique_articles

\* Both calls have returned; the first dropped a duplicate and kept two
\* articles
DedupedTwice ==
    /\ again_done
    /\ Len(unique_articles) >= 2
    /\ Len(unique_articles) < Len(articles)
    /\ \A i \in DOMAIN articles : Kept(articles[i])

\* The articles of s at the places in K, in the order of s
RECURSIVE PickAt(_, _, _)
PickAt(s, K, i) ==
    IF i > Len(s) THEN <<>>
    ELSE (IF i \in K THEN <<s[i]>> ELSE <<>>) \o PickAt(s, K, i + 1)

MoreThanFourFifths(title1, title2) ==
    LET sim == title_similarity(title1, title2)
    IN  5 * sim[1] > 4 * sim[2]

\* Article i repeats article j: the same url, or titles more than 0.8 similar
Repeats(i, j) ==
    \/ str_strip(articles[i].url) = str_strip(articles[j].url)
    \/ MoreThanFourFifths(str_strip(articles[i].title), str_strip(articles[j].title))

\* C12: the list returned holds, in their order, the articles of the input
\* at the places K, where a place is in K exactly if its article has title
\* and url and repeats no article at an earlier place of K.
KeepsFirstOccurrences ==
    dedupe_done =>
        \E K \in SUBSET DOMAIN articles :
            /\ unique_articles = PickAt(articles, K, 1)
            /\ \A i \in DOMAIN articles :
                   i \in K <=> /\ Kept(articles[i])
                               /\ \A j \in K : j < i => ~Repeats(i, j)

\* Of three articles the second, exactly 0.8 similar to the first, was kept
\* and the third, more than 0.8 similar to the first, was dropped
KeptAtFourFifths ==
    /\ dedupe_done
    /\ Len(articles) = 3
    /\ \A i \in DOMAIN articles : Kept(articles[i])
    /\ title_similarity(articles[1].title, articles[2].title) = <<4, 5>>
    /\ MoreThanFourFifths(articles[1].title, articles[3].title)
    /\ unique_articles = <<articles[1], articles[2]>>

(***************************************************************************)
(* The cache decorator around any function, and clear_cache                *)
(***************************************************************************)

\* The calls of wrapped functions that run
MaxCalls == 2

\* ttl=300 of get_enhanced_news_feed; the clock moves in steps of this length
FeedTtl == 300

\* Two of the decorators of the repository; ttl 0 stands for None
Decorated ==
    {[prefix |-> <<"t", "e", "s", "t">>,
      name   |-> <<"t", "e", "s", "t", "_", "f", "u", "n", "c", "t", "i", "o", "n">>,
      ttl    |-> 0],
     [prefix |-> FeedPrefix, name |-> FeedFuncName, ttl |-> FeedTtl]}

\* The argument lists of the calls: 1 and "1" print alike
ArgLists ==
    {<<PyInt(1), PyStr(<<"a">>)>>,
     <<PyStr(<<"1">>), PyStr(<<"a">>)>>,
     <<PyStr(<<"a">>), PyStr(<<"1">>)>>}

\* What the wrapped function returns: a list, strs that are not JSON, that
\* are JSON and that are empty, and an object json cannot serialize
ResultPool ==
    {PyList(<<"a">>), PyStr(<<"a">>), PyStr(<<"1">>), PyStr(<<>>),
     PyObj(<<"R", "o", "w">>, 16)}

\* redis_client here holds entries [key, text, ttl, age, by]: ttl the seconds
\* left, 0 when the entry has expired and redis no longer shows it; age the
\* seconds since it was stored; by the call that stored it, and whether an
\* expired entry of a call with the same arguments was there.
live(e) == e.ttl > 0

\* redis_client.get(key): the text, or None (the empty text here, as falsy)
get(key) ==
    IF \E e \in redis : e.key = key /\ live(e)
    THEN (CHOOSE e \in redis : e.key = key /\ live(e)).text
    ELSE <<>>

\* redis_client.setex(key, ttl, text)
setex(key, ttl, text, by) ==
    {e \in redis : e.key # key}
        \cup {[key |-> key, text |-> text, ttl |-> ttl, age |-> 0, by |-> by]}

\* The pattern language of redis_client.keys: * and ?, other characters
\* stand for themselves (the prefixes hold no bracket and no backslash)
RECURSIVE glob_match(_, _)
glob_match(pattern, key) ==
    IF pattern = <<>> THEN key = <<>>
    ELSE IF Head(pattern) = "*"
    THEN glob_match(Tail(pattern), key) \/ (key # <<>> /\ glob_match(pattern, Tail(key)))
    ELSE /\ key # <<>>
         /\ Head(pattern) = "?" \/ Head(pattern) = Head(key)
         /\ glob_match(Tail(pattern), Tail(key))

\* f"{prefix}:*"
keys_pattern(prefix) == prefix \o <<":", "*">>

\* MUTANT of keys: the pattern is not looked at
keys_all(pattern) == {e.key : e \in {x \in redis : live(x)}}

\* redis_client.keys(pattern)
keys(pattern) == {e.key : e \in {x \in redis : live(x) /\ glob_match(pattern, x.key)}}

InitCache ==
    /\ InitService("small", {1}, MaxBatches)
    /\ InitNoDedupe
    /\ calls_left = MaxCalls
    /\ last = NoOp
    /\ InitNoClassify
    /\ InitNoRank
    /\ InitNoPage

\* wrapper(*args): the key is in the cache, and its text is returned, parsed.
CallHit(f, args) ==
    LET cached_value == get(cache_key(f.prefix, f.name, args, <<>>))
    IN  /\ cached_value # <<>>
        /\ last' = [op |-> "call", prefix |-> PyStr(f.prefix), name |-> f.name,
                    args |-> args, hit |-> TRUE, value |-> cached_result(cached_value)]
        /\ UNCHANGED <<world, failed_feeds, feed_performance, redis, call, loop_blocked,
                       batches_left, pardoned, dedupe_vars, calls_left,
                   classify_vars, rank_vars, page_vars, stats, pending>>

\* wrapper(*args): the key is not in the cache; the function runs and returns
\* result, which is stored unless json cannot write it.
CallMiss(f, args, result) ==
    LET key == cache_key(f.prefix, f.name, args, <<>>)
    IN  /\ calls_left > 0
        /\ get(key) = <<>>
        /\ calls_left' = calls_left - 1
        /\ redis' = IF stored_text(result) = TypeError
                    THEN redis
                    ELSE setex(key, cache_ttl(f.ttl), stored_text(result),
                               [prefix |-> f.prefix, name |-> f.name, args |-> args,
                                result |-> result,
                                renewed |-> \E e \in redis :
                                                e.key = key /\ ~live(e) /\ e.by.args = args])
        /\ last' = [op |-> "call", prefix |-> PyStr(f.prefix), name |-> f.name,
                    args |-> args, hit |-> FALSE, value |-> result]
        /\ UNCHANGED <<world, failed_feeds, feed_performance, call, loop_blocked,
                       batches_left, pardoned, dedupe_vars, classify_vars, rank_vars, page_vars, stats, pending>>

\* clear_cache(prefix), with a prefix or with None
ClearCache(prefix) ==
    /\ IF truthy(prefix)
       THEN /\ redis' = {e \in redis : e.key \notin keys(keys_pattern(prefix.s))}
            /\ last' = [NoOp EXCEPT !.op = "clear", !.prefix = prefix,
                           !.value = PyInt(Cardinality(keys(keys_pattern(prefix.s))))]
       ELSE /\ redis' = {}
            /\ last' = [NoOp EXCEPT !.op = "clear", !.prefix = prefix,
                           !.value = PyBool(TRUE)]
    /\ UNCHANGED <<world, failed_feeds, feed_performance, call, loop_blocked,
                   batches_left, pardoned, dedupe_vars, calls_left,
                   classify_vars, rank_vars, page_vars, stats, pending>>

\* FeedTtl seconds pass.
Tick ==
    /\ \E e \in redis : live(e)
    /\ redis' = {IF live(e) THEN [e EXCEPT !.ttl = @ - FeedTtl, !.age = @ + FeedTtl] ELSE e :
                    e \in redis}
    /\ last' = [NoOp EXCEPT !.op = "tick"]
    /\ UNCHANGED <<world, failed_feeds, feed_performance, call, loop_blocked,
                   batches_left, pardoned, dedupe_vars, calls_left,
                   classify_vars, rank_vars, page_vars, stats, pending>>

Prefixes == {PyStr(f.prefix) : f \in Decorated} \cup {PyNone}

NextCache ==
    \/ \E f \in Decorated, args \in ArgLists : CallHit(f, args)
    \/ \E f \in Decorated, args \in ArgLists, result \in ResultPool : CallMiss(f, args, result)
    \/ \E prefix \in Prefixes : ClearCache(prefix)
    \/ Tick

SpecCache == InitCache /\ [][NextCache]_vars

(***************************************************************************)
(* The properties of the decorator                                         *)
(***************************************************************************)

\* This step is a call of the wrapped function f with args
CallStep(f, args) ==
    /\ last'.op = "call"
    /\ last'.prefix = PyStr(f.prefix)
    /\ last'.name = f.name
    /\ last'.args = args
    /\ <<redis, calls_left, last>>' # <<redis, calls_left, last>>

\* A call of f with args stored this entry and its TTL has not run out
StoredBy(e, f, args) ==
    live(e) /\ e.by.prefix = f.prefix /\ e.by.name = f.name /\ e.by.args = args

\* C13: a call that finds no entry runs the wrapped function once and stores
\* what it returned; as long as the entry a call with the same arguments
\* stored has not expired, a call with these arguments does not run the
\* function and returns a value equal to the one that call returned.
StoredResultServed ==
    [][\A f \in Decorated, args \in ArgLists :
          CallStep(f, args) =>
              IF \E e \in redis : StoredBy(e, f, args)
              THEN /\ last'.hit
                   /\ calls_left' = calls_left
                   /\ \A e \in redis : StoredBy(e, f, args) => last'.value = e.by.result
              ELSE ~last'.hit =>
                       /\ calls_left' = calls_left - 1
                       /\ \E e \in redis' : /\ StoredBy(e, f, args)
                                            /\ e.by.result = last'.value]_vars

\* The TTL the decorator of f was given, or that of the configuration
TtlOf(f) == IF f.ttl # 0 THEN f.ttl ELSE CACHE_TTL_SECONDS

\* C14: an entry is served less than its TTL (the ttl of the decorator, or
\* CACHE_TTL_SECONDS when none was given) after it was stored; a call with
\* the arguments of a call whose entry has expired runs the function again
\* and stores a fresh entry.
ServedWithinTtl ==
    [][\A f \in Decorated, args \in ArgLists :
          CallStep(f, args) =>
              /\ last'.hit =>
                     \A e \in redis :
                         e.key = cache_key(f.prefix, f.name, args, <<>>) /\ live(e)
                             => e.age < TtlOf(f)
              /\ (/\ \E e \in redis : ~live(e) /\ e.by.prefix = f.prefix
                                         /\ e.by.name = f.name /\ e.by.args = args
                  /\ ~\E e \in redis : live(e)
                                         /\ e.key = cache_key(f.prefix, f.name, args, <<>>))
                     => /\ ~last'.hit
                        /\ calls_left' = calls_left - 1
                        /\ stored_text(last'.value) # TypeError =>
                               \E e \in redis' : /\ StoredBy(e, f, args)
                                                 /\ e.age = 0
                                                 /\ e.ttl = TtlOf(f)
                                                 /\ e.text = stored_text(last'.value)]_vars

\* A call has run the function again after the entry of its arguments had
\* expired, and the entry it stored is fresh
RecomputedAfterExpiry ==
    /\ last.op = "call"
    /\ ~last.hit
    /\ \E e \in redis : /\ live(e) /\ e.age = 0 /\ e.by.renewed
                        /\ e.by.args = last.args /\ e.by.prefix = last.prefix.s
                        /\ e.by.result = last.value

\* C15: a call is served from the cache only if the entry was stored by a
\* call with the same argument list.
ServedOnlySameArguments ==
    (last.op = "call" /\ last.hit) =>
        \E e \in redis : /\ live(e)
                         /\ e.by.prefix = last.prefix.s
                         /\ e.by.name = last.name
                         /\ e.by.args = last.args

\* The entry e is stored under the prefix
Under(e, prefix) == live(e) /\ Take(e.key, Len(prefix) + 1) = prefix \o <<":">>

\* C16: clear_cache(prefix) removes every entry stored under the prefix and
\* returns how many they were; no key with the prefix remains, and the
\* entries under another prefix stay as they were.
ClearRemovesPrefix ==
    [][(/\ last'.op = "clear"
        /\ last'.prefix.t = "str"
        /\ <<redis, last>>' # <<redis, last>>)
          => /\ last'.value = PyInt(Cardinality({e \in redis : Under(e, last'.prefix.s)}))
             /\ ~\E e \in redis' : Under(e, last'.prefix.s)
             /\ \A e \in redis : live(e) /\ e.by.prefix # last'.prefix.s => e \in redis']_vars

\* clear_cache has removed an entry and left one under another prefix
ClearedOnePrefix ==
    /\ last.op = "clear"
    /\ last.prefix.t = "str"
    /\ last.value = PyInt(1)
    /\ \E e \in redis : live(e) /\ e.by.prefix # last.prefix.s

(***************************************************************************)
(* classify_article_topic on its own, over titles and contents of a few    *)
(* words                                                                   *)
(***************************************************************************)

MaxTitleWords == 2

MaxBodyWords == 1

\* Keywords of technology, of business and half of one of politics; a word
\* that holds a keyword inside it; a word that holds none
Words ==
    {<<"a", "i">>, <<"T", "e", "c", "h">>, <<"s", "a", "i", "d">>, <<"h", "i", "g", "h">>,
     <<"c", "o", "u", "r", "t">>, <<"m", "a", "r", "k", "e", "t">>}

Texts(n) == {join_with(ws, <<" ">>) : ws \in BoundedSeq(Words, n)}

InitClassify ==
    /\ InitService("small", {1}, MaxBatches)
    /\ InitNoDedupe
    /\ InitNoCalls
    /\ InitNoRank
    /\ InitNoPage
    /\ doc \in [title : Texts(MaxTitleWords), content : Texts(MaxBodyWords)]
    /\ scores = <<>>
    /\ topic = <<>>

Classify ==
    /\ topic = <<>>
    /\ scores' = topic_scores(doc.title, doc.content)
    /\ topic' = classify_article_topic(doc.title, doc.content)
    /\ UNCHANGED <<doc, service_vars, dedupe_vars, decorator_vars, rank_vars, page_vars, stats, pending>>

NextClassify == Classify

SpecClassify == InitClassify /\ [][NextClassify]_vars

HighestScore == CHOOSE m \in Range(scores) : \A i \in DOMAIN scores : scores[i] <= m

AllKeywords ==
    UNION {Range(topic_keywords[TopicOrder[i]]) : i \in DOMAIN TopicOrder}

\* C17: the topic returned is one with the highest score when that score is
\* at least 3 and "general" when it is less; it is "general" when no keyword
\* occurs in the title or in the content; it is a topic of the table or
\* "general".
HighestScoreOrGeneral ==
    topic # <<>> =>
        /\ HighestScore >= 3 =>
               \E i \in DOMAIN TopicOrder :
                   scores[i] = HighestScore /\ topic = TopicChars[TopicOrder[i]]
        /\ HighestScore < 3 => topic = GeneralChars
        /\ (\A k \in AllKeywords : /\ ~is_substring(str_lower(k), str_lower(doc.title))
                                   /\ ~is_substring(str_lower(k), str_lower(doc.content)))
               => topic = GeneralChars
        /\ topic \in {TopicChars[TopicOrder[i]] : i \in DOMAIN TopicOrder} \cup {GeneralChars}

\* A topic was returned for a score of exactly 3
ClassifiedAtThree ==
    /\ topic # <<>>
    /\ topic # GeneralChars
    /\ HighestScore = 3

Indicator(b) == IF b THEN 1 ELSE 0

\* The score of the claim: for every keyword 5 for the title, 2 for the
\* content and 1 for the whole word, and the bonus
SumOfParts(keywords, title, content) ==
    LET title_lower   == str_lower(title)
        content_lower == str_lower(content)
        text          == title_lower \o <<" ">> \o content_lower
        kw(i)         == str_lower(keywords[i])
        matched       == Cardinality({i \in DOMAIN keywords :
                             is_substring(kw(i), title_lower)
                                 \/ is_substring(kw(i), content_lower)})
    IN  SumSeq([i \in DOMAIN keywords |->
                   5 * Indicator(is_substring(kw(i), title_lower))
                   + 2 * Indicator(is_substring(kw(i), content_lower))
                   + Indicator(word_match(kw(i), text))])
        + (IF matched >= 2 THEN 2 * matched ELSE 0)

\* C18: the score of every topic is the sum over its keywords of 5 when the
\* keyword is in the title, 2 when it is in the content and 1 when it is a
\* whole word of the two, and of twice the number of keywords matched when
\* they are two or more.
ScoreIsSumOfParts ==
    topic # <<>> =>
        \A i \in DOMAIN TopicOrder :
            scores[i] = SumOfParts(topic_keywords[TopicOrder[i]], doc.title, doc.content)

(***************************************************************************)
(* sort_articles_by_relevance on its own, over every short list of the     *)
(* articles below                                                          *)
(***************************************************************************)

MaxRank == 3

ShortTitle == <<"t">>

LongTitle == [i \in 1..TitleLenMin |-> "t"]

\* Articles that differ in is_indian alone, that are equal but for the url,
\* that come to the same score by different bonuses, and others
RankPool ==
    {[url |-> <<"u", "1">>, title |-> ShortTitle, description |-> <<>>, is_indian |-> TRUE,
      hours_old |-> 1, feed_reliability |-> 80],
     [url |-> <<"u", "2">>, title |-> ShortTitle, description |-> <<>>, is_indian |-> FALSE,
      hours_old |-> 1, feed_reliability |-> 80],
     [url |-> <<"u", "3">>, title |-> ShortTitle, description |-> <<>>, is_indian |-> FALSE,
      hours_old |-> 1, feed_reliability |-> 80],
     [url |-> <<"u", "4">>, title |-> ShortTitle, description |-> <<>>, is_indian |-> FALSE,
      hours_old |-> 10, feed_reliability |-> 95],
     [url |-> <<"u", "5">>, title |-> ShortTitle, description |-> <<"d">>, is_indian |-> FALSE,
      hours_old |-> 100, feed_reliability |-> 80],
     [url |-> <<"u", "6">>, title |-> LongTitle, description |-> <<" ">>, is_indian |-> FALSE,
      hours_old |-> 100, feed_reliability |-> 80],
     [url |-> <<"u", "7">>, title |-> ShortTitle, description |-> <<>>, is_indian |-> TRUE,
      hours_old |-> 30, feed_reliability |-> 80]}

InitRank ==
    /\ InitService("small", {1}, MaxBatches)
    /\ InitNoDedupe
    /\ InitNoCalls
    /\ InitNoClassify
    /\ unranked \in BoundedSeq(RankPool, MaxRank)
    /\ focus \in BOOLEAN
    /\ ranked = <<>>
    /\ rank_done = FALSE
    /\ InitNoPage

Rank ==
    /\ ~rank_done
    /\ ranked' = sort_articles_by_relevance(unranked, focus)
    /\ rank_done' = TRUE
    /\ UNCHANGED <<unranked, focus, service_vars, dedupe_vars, decorator_vars,
                   classify_vars, page_vars, stats, pending>>

NextRank == Rank

SpecRank == InitRank /\ [][NextRank]_vars

RecencyTier(article) ==
    IF article.hours_old < 6 THEN 1
    ELSE IF article.hours_old < 24 THEN 2
    ELSE IF article.hours_old < 72 THEN 3 ELSE 4

\* The two articles have the same reliability, recency tier, title bonus and
\* summary bonus
SameButLocale(a, b) ==
    /\ a.feed_reliability = b.feed_reliability
    /\ RecencyTier(a) = RecencyTier(b)
    /\ (Len(a.title) \in 30..100) = (Len(b.title) \in 30..100)
    /\ (str_strip(a.description) # <<>>) = (str_strip(b.description) # <<>>)

\* C19: with focus_indian, of two articles of the list that are equal in
\* reliability, recency tier, title bonus and summary bonus, the Indian one
\* comes before the one that is not, whatever their order in the input.
LocaleRelevantFirst ==
    (rank_done /\ focus) =>
        \A p, q \in DOMAIN ranked :
            (/\ SameButLocale(ranked[p], ranked[q])
             /\ ranked[p].is_indian
             /\ ~ranked[q].is_indian) => p < q

\* The Indian article came second in the input and is first in the result
LocaleRelevantMovedUp ==
    /\ rank_done
    /\ focus
    /\ Len(unranked) = 2
    /\ SameButLocale(unranked[1], unranked[2])
    /\ ~unranked[1].is_indian
    /\ unranked[2].is_indian
    /\ ranked = <<unranked[2], unranked[1]>>

Score(article) == calculate_relevance_score(article, focus)

\* C20: the list returned is the input in another order: the scores do not
\* rise along it, and articles of equal score are in their input order.
RankedStablePermutation ==
    rank_done =>
        \E perm \in [DOMAIN unranked -> DOMAIN unranked] :
            /\ Len(ranked) = Len(unranked)
            /\ \A p, q \in DOMAIN unranked : p # q => perm[p] # perm[q]
            /\ \A p \in DOMAIN ranked : ranked[p] = unranked[perm[p]]
            /\ \A p, q \in DOMAIN ranked :
                   p < q => /\ Score(ranked[p]) >= Score(ranked[q])
                            /\ Score(ranked[p]) = Score(ranked[q]) => perm[p] < perm[q]

\* Two articles of equal score, behind which a better one came, have kept
\* their order
EqualScoresKeptOrder ==
    /\ rank_done
    /\ Len(unranked) = 3
    /\ unranked[1] # unranked[2]
    /\ Score(unranked[1]) = Score(unranked[2])
    /\ Score(unranked[3]) > Score(unranked[1])
    /\ ranked = <<unranked[3], unranked[1], unranked[2]>>

(***************************************************************************)
(* The body of get_enhanced_news_feed on its own: what the feeds serve,    *)
(* the rows of the store and the parameters are drawn from small sets, and *)
(* one step runs the batch on healthy feeds and the steps after it.        *)
(***************************************************************************)

\* The bounds: the greatest small limit and the greatest offset of a call
MaxLimit == 2

MaxOffset == 3

\* The sequences made of some of the elements of s, in the order of s
Sublists(s) ==
    {SelectSeq(s, LAMBDA x : x \in {s[i] : i \in I}) : I \in SUBSET DOMAIN s}

\* What a feed can serve: an entry with blanks around its title and link,
\* one without a link; an entry about a market, one about politics
PageEntries ==
    [n \in {"Times of India", "Economic Times"} |->
        IF n = "Times of India"
        THEN << [title |-> <<" ">> \o GovtTitleA, summary |-> <<>>,
                 link |-> <<"u", "1", " ">>, hours_old |-> 2],
                [title |-> <<"N", "o", " ", "l", "i", "n", "k">>, summary |-> <<>>,
                 link |-> <<>>, hours_old |-> 2] >>
        ELSE << [title |-> <<"M", "a", "r", "k", "e", "t", " ", "u", "p">>, summary |-> <<"m", "a", "r", "k", "e", "t">>,
                 link |-> <<"u", "2">>, hours_old |-> 30],
                [title |-> GovtTitleB, summary |-> <<>>,
                 link |-> <<"u", "4">>, hours_old |-> 2] >>]

\* What the store can hold: a row of NDTV, a row of Mint whose content is
\* NULL, a row whose title is the empty string, a row whose title is NULL
PageRows ==
    << SmallRows[1],
       [title |-> <<"B", "u", "d", "g", "e", "t">>, content |-> <<>>, url |-> <<"u", "5">>,
        topic |-> TopicChars.business, source_name |-> <<"M", "i", "n", "t">>,
        country |-> <<"i", "n">>, hours_old |-> 50, nulls |-> {"content"}],
       [title |-> <<>>, content |-> <<"t", "e", "x", "t">>, url |-> <<"u", "6">>,
        topic |-> TopicChars.politics, source_name |-> <<"N", "D", "T", "V">>,
        country |-> <<"i", "n">>, hours_old |-> 1, nulls |-> {}],
       [title |-> <<>>, content |-> <<"t", "e", "x", "t">>, url |-> <<"u", "7">>,
        topic |-> TopicChars.politics, source_name |-> <<"N", "D", "T", "V">>,
        country |-> <<"i", "n">>, hours_old |-> 3, nulls |-> {"title"}] >>

NdtvChars == <<"n", "d", "t", "v">>

PageParams ==
    {[topic |-> t, source |-> s, limit |-> l, offset |-> o, focus_indian |-> TRUE] :
        t \in {PyNone, PyStr(TopicChars.politics), PyStr(TopicChars.business)},
        s \in {PyNone, PyStr(NdtvChars)},
        l \in (1..MaxLimit) \cup {DefaultParams.limit},
        o \in 0..MaxOffset}

\* The articles fetch_all_rss_feeds returns when no feed is quarantined and
\* every fetch succeeds
page_rss(entries, p) ==
    LET feeds == batch_feeds(SmallCatalog, {}, p.focus_indian, p.topic)
    IN  Concat([i \in DOMAIN feeds |-> feed_articles(entries[feeds[i].name], feeds[i])])

\* The lists the feeds can serve, and the articles of each, for each topic
PageServed ==
    [toi \in Sublists(PageEntries["Times of India"]),
     et \in Sublists(PageEntries["Economic Times"]),
     t \in {p.topic : p \in PageParams} |->
        page_rss([n \in DOMAIN PageEntries |-> IF n = "Times of India" THEN toi ELSE et],
                 [DefaultParams EXCEPT !.topic = t])]

InitPage ==
    /\ InitService("small", {1}, MaxBatches)
    /\ InitNoDedupe
    /\ InitNoCalls
    /\ InitNoClassify
    /\ InitNoRank
    /\ \E toi \in Sublists(PageEntries["Times of India"]),
          et \in Sublists(PageEntries["Economic Times"]),
          rows \in Sublists(PageRows), p \in PageParams :
            fed = [rss |-> PageServed[toi, et, p.topic], rows |-> rows, params |-> p]
    /\ page = <<>>
    /\ page_done = FALSE
    /\ stats = NoStats
    /\ pending = {}

RunPage ==
    /\ ~page_done
    /\ page' = enhanced_news_feed(fed.rss, fed.rows, fed.params)
    /\ page_done' = TRUE
    /\ UNCHANGED <<fed, service_vars, dedupe_vars, decorator_vars, classify_vars,
                   rank_vars, stats, pending>>

NextPage == RunPage

SpecPage == InitPage /\ [][NextPage]_vars

\* The list the call sorted: without the duplicates, of the topic asked
\* for, ranked
RankedList ==
    LET unique == remove_duplicates_advanced(all_articles(fed.rss, fed.rows, fed.params))
        filtered == IF truthy(fed.params.topic)
                    THEN filter_by_topic_intelligent(unique, fed.params.topic)
                    ELSE unique
    IN  sort_articles_by_relevance(filtered, fed.params.focus_indian)

\* The call ran to its return statement
PageReturned == page_done /\ ~pipeline_raises(fed.rss, fed.rows, fed.params)

\* C21: a call that runs to its return statement returns the elements of
\* the ranked list at the positions offset + 1 .. offset + limit, as many as
\* there are, in the order of the list: never more than limit, none when
\* the offset is at or beyond the end of the list.
PageIsWindow ==
    PageReturned =>
        LET o == fed.params.offset
            l == fed.params.limit
            n == Len(RankedList)
        IN  /\ Len(page) <= l
            /\ Len(page) = (IF n <= o THEN 0 ELSE IF n - o < l THEN n - o ELSE l)
            /\ \A i \in 1..Len(page) : page[i] = RankedList[o + i]

\* A call cut the list at both ends
PageCutBothEnds ==
    /\ PageReturned
    /\ fed.params.offset = 1
    /\ fed.params.limit = 1
    /\ Len(RankedList) = 3
    /\ page = <<RankedList[2]>>

\* C22: when the call has a source filter, every article of the page is of
\* a source whose name matches it, fetched from a feed or read from the store.
PageOfSourceAskedFor ==
    (page_done /\ truthy(fed.params.source)) =>
        \A i \in DOMAIN page : ilike_contains(page[i].source_name, fed.params.source.s)

\* C23: when the call has a topic filter other than general, every article
\* of the page has that topic as its label.
PageOfTopicAskedFor ==
    (/\ page_done
     /\ truthy(fed.params.topic)
     /\ str_lower(fed.params.topic.s) # GeneralChars) =>
        \A i \in DOMAIN page : page[i].topic = str_lower(fed.params.topic.s)

\* What the route answers with the list the service returned
feed_response(returned, p) ==
    [success |-> TRUE, articles |-> returned, total |-> Len(returned), topic |-> p.topic,
     focus_indian |-> p.focus_indian, limit |-> p.limit, offset |-> p.offset]

\* Neither the feeds nor the store gave an article, or no article passes
\* one of the tests of the topic filter
NothingToReturn ==
    LET arts == all_articles(fed.rss, fed.rows, fed.params)
        t    == fed.params.topic
    IN  \/ arts = <<>>
        \/ /\ truthy(t)
           /\ str_lower(t.s) # GeneralChars
           /\ \A i \in DOMAIN arts : ~topic_keeps(arts[i], str_lower(t.s))

row_usable(row) ==
    /\ row.nulls \cap {"title", "url"} = {}
    /\ str_strip(row.title) # <<>>
    /\ str_strip(row.url) # <<>>

\* C25: every article of the page has a title and a URL that are not empty,
\* and an item without one of them is dropped and no more: when no row
\* lacks its content, the page is the one the call would return if the
\* store held only the rows that have a title and a URL.
PageDropsItemsWithoutTitleOrUrl ==
    page_done =>
        /\ \A i \in DOMAIN page :
               /\ page[i].nulls \cap {"title", "url"} = {}
               /\ page[i].title # <<>>
               /\ page[i].url # <<>>
        /\ (\A i \in DOMAIN fed.rows : "content" \notin fed.rows[i].nulls) =>
               page = enhanced_news_feed(fed.rss, SelectSeq(fed.rows, row_usable), fed.params)

\* A row whose title is the empty string was dropped and the rest returned
EmptyTitleDropped ==
    /\ page_done
    /\ \E i \in DOMAIN fed.rows : fed.rows[i].title = <<>> /\ fed.rows[i].nulls = {}
    /\ \A i \in DOMAIN fed.rows : fed.rows[i].nulls = {}
    /\ page # <<>>
    /\ \A i \in DOMAIN page : page[i].title # <<>>

\* C26: get_performance_stats changes neither failed_feeds nor
\* feed_performance; reset_failed_feeds empties failed_feeds, a second reset
\* right after it changes nothing more, and it leaves feed_performance as
\* it was; no step makes the number of samples of a feed smaller.
StatsAndResetKeepHistory ==
    [][/\ stats' # stats =>
             /\ failed_feeds' = failed_feeds
             /\ feed_performance' = feed_performance
       /\ reset_failed_feeds =>
             /\ failed_feeds' = {}
             /\ clear(failed_feeds') = failed_feeds'
             /\ feed_performance' = feed_performance
       /\ \A n \in DOMAIN feed_performance :
             feed_performance'[n] >= feed_performance[n]]_vars

\* The statistics showed a quarantined feed and a feed with a sample; a
\* reset then emptied the quarantine and the sample is still there
ResetAfterStats ==
    /\ stats.failed_feeds = 1
    /\ \E n \in DOMAIN stats.total_requests : stats.total_requests[n] = 1
    /\ pardoned # {}
    /\ failed_feeds = {}
    /\ \E n \in DOMAIN feed_performance : feed_performance[n] = 1

\* The feeds fetch_all_rss_feeds selects for the parameters p, by focus and
\* by topic
SelectedFeeds(p) ==
    LET feeds == select_by_topic(select_by_focus(rss_feeds, p.focus_indian), p.topic)
    IN  {feeds[i].name : i \in DOMAIN feeds}

\* C27: a batch has exactly one task for every selected feed that is not in
\* quarantine when it starts, however many they are.
OneTaskForEverySelectedFeed ==
    [][\A c \in Clients :
          BatchStarts(c) =>
              /\ TaskFeeds(call'[c].task) = SelectedFeeds(call'[c].params) \ failed_feeds
              /\ Len(call'[c].task) = Cardinality(TaskFeeds(call'[c].task))]_vars

\* A batch for one topic has a task for every selected feed that is not in
\* quarantine: they are fewer than the tasks a batch can have
TopicBatchComplete ==
    /\ call[1].pc = "fetching"
    /\ call[1].params = BusinessParams
    /\ failed_feeds = {"Economic Times"}
    /\ TaskFeeds(call[1].task) = SelectedFeeds(BusinessParams) \ failed_feeds
    /\ Len(call[1].task) = 7

\* The tasks of the feed named n that end in this step with one of the outcomes
EndedWith(n, outcomes) ==
    {ci \in {<<c, i>> : c \in Clients, i \in 1..MaxFeedsPerBatch} :
        LET c == ci[1]
            i == ci[2]
        IN  /\ i \in DOMAIN call[c].task
            /\ i \in DOMAIN call'[c].task
            /\ call[c].pc = "fetching"
            /\ call'[c].pc = "fetching"
            /\ call[c].task[i].feed = n
            /\ call[c].task[i].st # "done"
            /\ call'[c].task[i].st = "done"
            /\ call'[c].task[i].out \in outcomes}

\* C28: however the tasks of overlapping calls and the resets interleave,
\* no write to failed_feeds or feed_performance is lost.  In every step
\* failed_feeds becomes empty if the step is a reset and else gains exactly
\* the feeds of the tasks that end in a timeout or an error in it, so a feed
\* is in failed_feeds if and only if a fetch of it has ended so since the
\* last reset; feed_performance gains one sample for each task that ends
\* with articles; failed_feeds holds only names of feeds of the catalogue.
NoQuarantineWriteLost ==
    [][/\ failed_feeds' = (IF reset_failed_feeds
                            THEN {}
                            ELSE failed_feeds \cup
                                 {n \in FeedNames : EndedWith(n, {"timeout", "error"}) # {}})
       /\ \A n \in FeedNames :
             feed_performance'[n] = feed_performance[n] + Cardinality(EndedWith(n, {"ok"}))
       /\ failed_feeds' \subseteq FeedNames]_vars

\* Two calls overlapped: the fetch of the first ended in an error, a reset
\* emptied the quarantine, and the fetch of the second, which ended in a
\* timeout after it, put the feed back
QuarantinedAgainAfterReset ==
    /\ call[1].pc = "fetching"
    /\ call[2].pc = "fetching"
    /\ Len(call[1].task) = 1
    /\ Len(call[2].task) = 1
    /\ call[1].task[1].out = "error"
    /\ call[2].task[1].out = "timeout"
    /\ pardoned = {"Times of India"}
    /\ failed_feeds = {"Times of India"}

(***************************************************************************)
(* The wrapper with calls that overlap: it reads the cache, awaits the     *)
(* wrapped function, and stores the result when the function has returned *)
(***************************************************************************)

\* What the wrapped function returns here
FlightResults == {PyList(<<"a">>), PyList(<<"b">>)}

\* wrapper(*args) up to "await func(*args, **kwargs)": the key is not in
\* the cache and the wrapped function starts.
FlightBegin(f, args) ==
    LET key == cache_key(f.prefix, f.name, args, <<>>)
    IN  /\ calls_left > 0
        /\ get(key) = <<>>
        /\ calls_left' = calls_left - 1
        /\ pending' = pending \cup {[id |-> calls_left, prefix |-> f.prefix, name |-> f.name,
                                      ttl |-> f.ttl, args |-> args, key |-> key]}
        /\ UNCHANGED <<service_vars, dedupe_vars, last, classify_vars, rank_vars, page_vars,
                       stats>>

\* The wrapped function of a running call returns result: the wrapper
\* stores it and returns it.
FlightEnd(running, result) ==
    /\ running \in pending
    /\ pending' = pending \ {running}
    /\ redis' = IF stored_text(result) = TypeError
                THEN redis
                ELSE setex(running.key, cache_ttl(running.ttl), stored_text(result),
                           [prefix |-> running.prefix, name |-> running.name,
                            args |-> running.args, result |-> result, renewed |-> FALSE])
    /\ last' = [op |-> "call", prefix |-> PyStr(running.prefix), name |-> running.name,
                args |-> running.args, hit |-> FALSE, value |-> result]
    /\ UNCHANGED <<world, failed_feeds, feed_performance, call, loop_blocked, batches_left,
                   pardoned, dedupe_vars, calls_left, classify_vars, rank_vars, page_vars,
                   stats>>

NextFlight ==
    \/ \E f \in Decorated, args \in ArgLists : CallHit(f, args)
    \/ \E f \in Decorated, args \in ArgLists : FlightBegin(f, args)
    \/ \E running \in pending, result \in FlightResults : FlightEnd(running, result)

SpecFlight == InitCache /\ [][NextFlight]_vars

\* C29: of the calls of a wrapped function that overlap and have the same
\* key, at most one runs the function: no two running computations are of
\* the same function with the same arguments.
OneComputationPerKey ==
    \A a \in pending : \A b \in pending :
        (a.prefix = b.prefix /\ a.name = b.name /\ a.args = b.args) => a = b

\* C30: a call of get_enhanced_news_feed whose steps after the gather raise,
\* and which returns the empty list for that, stores no entry in the cache.
FailedFeedNotCached ==
    [][\A c \in Clients :
          (BatchReturns(c) /\ pipeline_raises(call'[c].rss, World.rows, call'[c].params))
              => redis' = redis]_vars

=============================================================================
